---- MODULE Spec2Model ----
(***************************************************************************)
(* The assessment-set builder of cvp-lite (src/app/ai_service.py): the     *)
(* normalizer, the RIASEC classifier, the quota allocator, the option      *)
(* sanitizer, the shuffle and the resequencer, and generate_step1_questions*)
(* which chains them behind the LLM call.                                  *)
(*                                                                         *)
(* Python values are tagged records [t, v]; a dict is a function from its  *)
(* keys to values, a list a sequence, a str a TLA+ string.                 *)
(***************************************************************************)
EXTENDS Integers, Sequences, FiniteSets, TLC

VARIABLES
    pc,               \* position of the running call
    path,             \* "direct" | "normal" | "fallback": who called the allocator
    options,          \* _sanitize_options: its argument
    valid,            \* _sanitize_options: its return value
    again,            \* _sanitize_options applied to its own return value
    candidates,       \* _normalize_step1_questions: its argument (any value)
    normalized,       \* _normalize_step1_questions: its return value
    questions,        \* _enforce_riasec_distribution: its questions argument
    desired,          \* _enforce_riasec_distribution: the quota table, in dict order
    selected,         \* _enforce_riasec_distribution: the selection being built
    used_ids,         \* _enforce_riasec_distribution: ids already in the selection
    fallback_pools,   \* _enforce_riasec_distribution: the bank built for this call
    enforced,         \* _enforce_riasec_distribution: its return value
    student_profile,  \* generate_step1_questions: its argument
    response,         \* generate_step1_questions: outcome of the LLM call
    shuffled,         \* generate_step1_questions: the list after random.shuffle
    shuffles,         \* number of random.shuffle calls made so far
    result,           \* generate_step1_questions: the returned "questions" list
    raised,           \* TRUE when an exception left generate_step1_questions
    tags_arg,         \* _extract_riasec_primary: its tags argument (any value)
    primary,          \* _extract_riasec_primary: its return value
    cursor            \* _enforce_riasec_distribution, statement by statement: the loop
                      \* variables (code index, candidate index, new_id, suffix, deficit)

sanVars   == <<options, valid, again>>
normVars  == <<candidates, normalized>>
allocVars == <<questions, desired, selected, used_ids, fallback_pools, enforced>>
pipeVars  == <<student_profile, response, shuffled, shuffles, result, raised>>
clsVars   == <<tags_arg, primary>>
loopVars  == <<cursor>>
vars      == <<pc, path, sanVars, normVars, allocVars, pipeVars, clsVars, loopVars>>

\* the loop variables before any loop has started
NoCursor == [i |-> 0, k |-> 0, j |-> 0, new_id |-> "", suffix |-> 0, deficit |-> 0]

(***************************************************************************)
(* Bounds of the model.                                                    *)
(***************************************************************************)
MaxOptions == 5      \* longest options list handed to the sanitizer
MaxRaw == 2          \* longest candidate list in a model response
MaxCands == 3        \* longest candidate list handed to the normalizer or the allocator
ShuffleDraws == 1    \* iterations of the shuffle that draw freely
MaxTags == 3         \* longest tags list handed to the classifier
MaxSelected == 4     \* longest selection handed to the trim-surplus block
MaxStepCands == 2    \* longest candidate list of the statement-by-statement runs

(***************************************************************************)
(* Python values.                                                          *)
(***************************************************************************)
PNone    == [t |-> "none", v |-> ""]
PStr(s)  == [t |-> "str",  v |-> s]
PInt(n)  == [t |-> "int",  v |-> n]
PList(s) == [t |-> "list", v |-> s]
PDict(f) == [t |-> "dict", v |-> f]

IsList(x) == x.t = "list"
IsDict(x) == x.t = "dict"
IsStr(x)  == x.t = "str"

\* bool(x)
Truthy(x) ==
    CASE x.t = "none" -> FALSE
      [] x.t = "str"  -> x.v # ""
      [] x.t = "int"  -> x.v # 0
      [] x.t = "list" -> Len(x.v) > 0
      [] x.t = "dict" -> DOMAIN x.v # {}

\* x or y
Or(x, y) == IF Truthy(x) THEN x ELSE y

\* d.get(k)
Get(d, k) == IF k \in DOMAIN d.v THEN d.v[k] ELSE PNone

\* d.get(k, dflt)
GetOr(d, k, dflt) == IF k \in DOMAIN d.v THEN d.v[k] ELSE dflt

\* {**d, k: val}
With(d, k, val) ==
    PDict([kk \in DOMAIN d.v \cup {k} |-> IF kk = k THEN val ELSE d.v[kk]])

\* str(x), for the scalars that reach it
Str(x) ==
    CASE x.t = "str"  -> x.v
      [] x.t = "int"  -> ToString(x.v)
      [] x.t = "none" -> "None"

Whitespace == {" ", "\t", "\n"}

RECURSIVE LStrip(_)
LStrip(s) ==
    IF Len(s) > 0 /\ SubSeq(s, 1, 1) \in Whitespace
    THEN LStrip(SubSeq(s, 2, Len(s)))
    ELSE s

RECURSIVE RStrip(_)
RStrip(s) ==
    IF Len(s) > 0 /\ SubSeq(s, Len(s), Len(s)) \in Whitespace
    THEN RStrip(SubSeq(s, 1, Len(s) - 1))
    ELSE s

\* s.strip()
Strip(s) == RStrip(LStrip(s))

\* s[:n] for a list s
Prefix(s, n) ==
    IF n >= 0
    THEN SubSeq(s, 1, IF n < Len(s) THEN n ELSE Len(s))
    ELSE SubSeq(s, 1, IF Len(s) + n > 0 THEN Len(s) + n ELSE 0)

Range(s) == {s[i] : i \in 1..Len(s)}

\* {"id": id, "text": text}
Opt(id, text) == PDict([id |-> PStr(id), text |-> PStr(text)])

(***************************************************************************)
(* _sanitize_options                                                       *)
(***************************************************************************)
\* mutant: the id is read from "key" alone
OptionIdFromKey(opt) == Strip(Str(Or(Get(opt, "key"), PStr(""))))

\* oid = str(opt.get("id") or opt.get("key") or "").strip()
OptionId(opt) == Strip(Str(Or(Or(Get(opt, "id"), Get(opt, "key")), PStr(""))))

\* text = str(opt.get("text") or opt.get("label") or "").strip()
OptionText(opt) == Strip(Str(Or(Or(Get(opt, "text"), Get(opt, "label")), PStr(""))))

\* the loop that keeps the well-formed entries of a list of options
RECURSIVE KeepValid(_, _)
KeepValid(opts, i) ==
    IF i > Len(opts) THEN <<>>
    ELSE LET opt == opts[i] IN
         IF ~IsDict(opt) THEN KeepValid(opts, i + 1)
         ELSE IF OptionId(opt) # "" /\ OptionText(opt) # ""
              THEN <<Opt(OptionId(opt), OptionText(opt))>> \o KeepValid(opts, i + 1)
              ELSE KeepValid(opts, i + 1)

ValidOptions(opts) == IF IsList(opts) THEN KeepValid(opts.v, 1) ELSE <<>>

LikertDefaults ==
    << Opt("a", "Sounds exactly like me"),
       Opt("b", "Somewhat like me"),
       Opt("c", "A little like me"),
       Opt("d", "Not like me") >>

\* mutant: the padding defaults are taken in the order d, c, b, a
fallback_stream_reversed ==
    << <<"d", "Not like me">>,
       <<"c", "A little like me">>,
       <<"b", "Somewhat like me">>,
       <<"a", "Sounds exactly like me">> >>

fallback_stream ==
    << <<"a", "Sounds exactly like me">>,
       <<"b", "Somewhat like me">>,
       <<"c", "A little like me">>,
       <<"d", "Not like me">> >>

\* mutant: a default whose id is taken ends the padding (break for continue)
RECURSIVE PadOptionsBreak(_, _, _)
PadOptionsBreak(kept, ids, i) ==
    IF i > Len(fallback_stream) \/ Len(kept) >= 4 THEN kept
    ELSE LET oid == fallback_stream[i][1]
             text == fallback_stream[i][2]
         IN IF oid \in ids
            THEN kept
            ELSE PadOptionsBreak(Append(kept, Opt(oid, text)), ids \cup {oid}, i + 1)

\* for oid, text in fallback_stream: pad up to 4, skipping ids already present
RECURSIVE PadOptions(_, _, _)
PadOptions(kept, ids, i) ==
    IF i > Len(fallback_stream) \/ Len(kept) >= 4 THEN kept
    ELSE LET oid == fallback_stream[i][1]
             text == fallback_stream[i][2]
         IN IF oid \in ids
            THEN PadOptions(kept, ids, i + 1)
            ELSE PadOptions(Append(kept, Opt(oid, text)), ids \cup {oid}, i + 1)

\* mutant: the defaults replace the options only when none is valid (< 1 for < 2)
SanitizeKeepSingle(opts) ==
    LET v == ValidOptions(opts) IN
    IF Len(v) < 1 THEN LikertDefaults
    ELSE LET kept == Prefix(v, 4)
         IN PadOptions(kept, {kept[i].v["id"].v : i \in 1..Len(kept)}, 1)

SanitizeOptions(opts) ==
    LET v == ValidOptions(opts) IN
    IF Len(v) < 2 THEN LikertDefaults
    ELSE LET kept == Prefix(v, 4)
         IN PadOptions(kept, {kept[i].v["id"].v : i \in 1..Len(kept)}, 1)

(***************************************************************************)
(* _normalize_step1_questions                                              *)
(***************************************************************************)
\* f"q{counter}"
QId(counter) == "q" \o ToString(counter)

\* mutant: the first generated id is taken without looking at seen_ids
GenerateIdOnce(counter, seen_ids) == [qid |-> QId(counter), counter |-> counter + 1]

\* while True: qid = f"q{counter}"; counter += 1; if qid not in seen_ids: break
RECURSIVE GenerateId(_, _)
GenerateId(counter, seen_ids) ==
    IF QId(counter) \notin seen_ids
    THEN [qid |-> QId(counter), counter |-> counter + 1]
    ELSE GenerateId(counter + 1, seen_ids)

\* mutant: a provided id is kept even when it was seen before
QuestionIdNoSeenCheck(q, counter, seen_ids) ==
    LET qid == Strip(Str(Or(Get(q, "id"), PStr(QId(counter)))))
    IN IF qid = ""
       THEN GenerateId(counter, seen_ids)
       ELSE [qid |-> qid, counter |-> counter]

\* the id of one element: the provided one, or a generated one
QuestionId(q, counter, seen_ids) ==
    LET qid == Strip(Str(Or(Get(q, "id"), PStr(QId(counter)))))
    IN IF qid = "" \/ qid \in seen_ids
       THEN GenerateId(counter, seen_ids)
       ELSE [qid |-> qid, counter |-> counter]

\* prompt = str(q.get("prompt") or q.get("question") or "").strip()
PromptOf(q) == Strip(Str(Or(Or(Get(q, "prompt"), Get(q, "question")), PStr(""))))

\* options = q.get("options") or []; keep the well-formed entries of a list
NormOptions(q) ==
    LET opts == Or(Get(q, "options"), PList(<<>>))
    IN IF IsList(opts) THEN KeepValid(opts.v, 1) ELSE <<>>

\* item = {"id", "prompt", "options"} plus scenario and tags when truthy
NormItem(q, qid) ==
    LET base == [id |-> PStr(qid), prompt |-> PStr(PromptOf(q)),
                 options |-> PList(NormOptions(q))]
        keys == {"id", "prompt", "options"}
                  \cup (IF Truthy(Get(q, "scenario")) THEN {"scenario"} ELSE {})
                  \cup (IF Truthy(Get(q, "tags")) THEN {"tags"} ELSE {})
    IN PDict([k \in keys |-> IF k \in DOMAIN base THEN base[k] ELSE q.v[k]])

\* for q in questions: ...   st = [out, seen_ids, counter]
RECURSIVE NormLoop(_, _, _)
NormLoop(qs, i, st) ==
    IF i > Len(qs) THEN st.out
    ELSE IF ~IsDict(qs[i]) THEN NormLoop(qs, i + 1, st)
    ELSE LET id == QuestionId(qs[i], st.counter, st.seen_ids)
         IN NormLoop(qs, i + 1,
                     [out |-> Append(st.out, NormItem(qs[i], id.qid)),
                      seen_ids |-> st.seen_ids \cup {id.qid},
                      counter |-> id.counter])

\* mutant: a record whose prompt comes out empty is dropped
NormalizeDropsEmptyPrompt(qs) ==
    IF ~IsList(qs) THEN <<>>
    ELSE LET out == NormLoop(qs.v, 1, [out |-> <<>>, seen_ids |-> {}, counter |-> 1])
             keep == {i \in 1..Len(out) : out[i].v["prompt"].v # ""}
             f[i \in 0..Len(out)] ==
                 IF i = 0 THEN <<>>
                 ELSE IF i \in keep THEN Append(f[i - 1], out[i]) ELSE f[i - 1]
         IN f[Len(out)]

NormalizeStep1Questions(qs) ==
    IF ~IsList(qs) THEN <<>>
    ELSE NormLoop(qs.v, 1, [out |-> <<>>, seen_ids |-> {}, counter |-> 1])

(***************************************************************************)
(* _resequence_question_ids                                                *)
(***************************************************************************)
\* mutant: enumerate starts at 0
ResequenceFromZero(qs) ==
    [index \in 1..Len(qs) |-> With(qs[index], "id", PStr(QId(index - 1)))]

\* new_item = {**question, "id": f"q{index}"} for index, question in enumerate(questions, start=1)
ResequenceQuestionIds(qs) ==
    [index \in 1..Len(qs) |-> With(qs[index], "id", PStr(QId(index)))]

(***************************************************************************)
(* _extract_riasec_primary                                                 *)
(***************************************************************************)
NoPrimary == "<None>"

RiasecCodes == {"R", "I", "A", "S", "E", "C"}

mapping ==
    [Realistic |-> "R", Investigative |-> "I", Artistic |-> "A",
     Social |-> "S", Enterprising |-> "E", Conventional |-> "C"]

\* mutant: the tags are read from the end of the list
RECURSIVE LastPrimary(_, _)
LastPrimary(tags, i) ==
    IF i > Len(tags) THEN NoPrimary
    ELSE IF ~IsStr(tags[Len(tags) + 1 - i]) THEN LastPrimary(tags, i + 1)
    ELSE LET t == Strip(tags[Len(tags) + 1 - i].v)
         IN IF t \in RiasecCodes THEN t
            ELSE IF t \in DOMAIN mapping THEN mapping[t]
            ELSE LastPrimary(tags, i + 1)

\* for tag in tags: the first tag that is a letter or a full name decides
RECURSIVE FirstPrimary(_, _)
FirstPrimary(tags, i) ==
    IF i > Len(tags) THEN NoPrimary
    ELSE IF ~IsStr(tags[i]) THEN FirstPrimary(tags, i + 1)
    ELSE LET t == Strip(tags[i].v)
         IN IF t \in RiasecCodes THEN t
            ELSE IF t \in DOMAIN mapping THEN mapping[t]
            ELSE FirstPrimary(tags, i + 1)

ExtractRiasecPrimary(tags) ==
    IF ~Truthy(tags) \/ ~IsList(tags) THEN NoPrimary
    ELSE FirstPrimary(tags.v, 1)

\* self._extract_riasec_primary(q.get("tags"))
PrimaryOf(q) == ExtractRiasecPrimary(Get(q, "tags"))

(***************************************************************************)
(* _fallback_by_riasec: the bank, built from the student context.          *)
(***************************************************************************)
FallbackByRiasec(profile) ==
    LET p == Or(profile, PDict(<<>>))
        dream_job == Str(Or(Get(p, "dream_job"), PStr("a role you aspire to")))
        hobbies == Or(Get(p, "hobbies_and_passions"), PList(<<>>))
        hobby == IF Truthy(hobbies) THEN Str(hobbies.v[1]) ELSE "your favorite activity"
    IN
       [
         R |-> <<
        PDict([ id |-> PStr("R1"),
                prompt |-> PStr("You have access to a maker lab for an hour. What would you most like to do?"),
                scenario |-> PStr("School makerspace hour"),
                options |-> PList(<< Opt("a", "Build or fix a simple device using tools"),
                  Opt("b", "Sketch ideas for a future project"),
                  Opt("c", "Plan tasks and assign roles"),
                  Opt("d", "Research best practices before starting") >>),
                tags |-> PList(<< PStr("R") >>) ]),
        PDict([ id |-> PStr("R2"),
                prompt |-> PStr("Which weekend plan sounds most fun to you?"),
                options |-> PList(<< Opt("a", "Do a hands-on activity like biking, hiking, or fixing something"),
                  Opt("b", "Write or create digital art"),
                  Opt("c", "Lead a community game or event"),
                  Opt("d", "Study an interesting topic online") >>),
                tags |-> PList(<< PStr("R") >>) ]) >>,
         I |-> <<
        PDict([ id |-> PStr("I1"),
                prompt |-> PStr("You notice a pattern in how your classmates learn. What do you do next?"),
                options |-> PList(<< Opt("a", "Design an experiment to test your idea"),
                  Opt("b", "Share a motivational story with the class"),
                  Opt("c", "Create a poster to explain it visually"),
                  Opt("d", "Coordinate a study group") >>),
                tags |-> PList(<< PStr("I") >>) ]),
        PDict([ id |-> PStr("I2"),
                prompt |-> PStr("A device at an event stops working. What is your first step?"),
                scenario |-> PStr("Live school event"),
                options |-> PList(<< Opt("a", "Diagnose the root cause step by step"),
                  Opt("b", "Announce a quick plan and delegate"),
                  Opt("c", "Document the incident and adjust the schedule"),
                  Opt("d", "Improvise a creative workaround") >>),
                tags |-> PList(<< PStr("I") >>) ]) >>,
         A |-> <<
        PDict([ id |-> PStr("A1"),
                prompt |-> PStr("You are creating something related to " \o hobby \o ". Which approach excites you most?"),
                options |-> PList(<< Opt("a", "Try a bold, original style"),
                  Opt("b", "Follow a proven template"),
                  Opt("c", "Gather data to inform the design"),
                  Opt("d", "Organize a team to produce it") >>),
                tags |-> PList(<< PStr("A") >>) ]),
        PDict([ id |-> PStr("A2"),
                prompt |-> PStr("In a group project, which role do you pick?"),
                options |-> PList(<< Opt("a", "Designer who makes it creative"),
                  Opt("b", "Leader who coordinates tasks"),
                  Opt("c", "Researcher who digs into facts"),
                  Opt("d", "Organizer who tracks progress") >>),
                tags |-> PList(<< PStr("A") >>) ]) >>,
         S |-> <<
        PDict([ id |-> PStr("S1"),
                prompt |-> PStr("A friend struggles to understand a topic you like. What do you do?"),
                options |-> PList(<< Opt("a", "Explain it with simple examples"),
                  Opt("b", "Create a visual guide"),
                  Opt("c", "Assign practice tasks"),
                  Opt("d", "Research more before responding") >>),
                tags |-> PList(<< PStr("S") >>) ]),
        PDict([ id |-> PStr("S2"),
                prompt |-> PStr("At a community event, which activity draws you in?"),
                options |-> PList(<< Opt("a", "Helping visitors and answering questions"),
                  Opt("b", "Designing posters or visuals"),
                  Opt("c", "Analyzing feedback data"),
                  Opt("d", "Operating equipment") >>),
                tags |-> PList(<< PStr("S") >>) ]) >>,
         E |-> <<
        PDict([ id |-> PStr("E1"),
                prompt |-> PStr("You want to start a small initiative at school around " \o hobby \o ". What is your first move?"),
                options |-> PList(<< Opt("a", "Pitch the idea and inspire a team"),
                  Opt("b", "Design a logo and theme"),
                  Opt("c", "Draft a detailed timeline"),
                  Opt("d", "Research similar initiatives") >>),
                tags |-> PList(<< PStr("E") >>) ]),
        PDict([ id |-> PStr("E2"),
                prompt |-> PStr("If you were leading a club related to " \o dream_job \o ", what would you focus on first?"),
                options |-> PList(<< Opt("a", "Build excitement and recruit members"),
                  Opt("b", "Create visuals and publicity"),
                  Opt("c", "Set up processes and roles"),
                  Opt("d", "Collect data on member interests") >>),
                tags |-> PList(<< PStr("E") >>) ]) >>,
         C |-> <<
        PDict([ id |-> PStr("C1"),
                prompt |-> PStr("When planning a class event, which task do you enjoy most?"),
                options |-> PList(<< Opt("a", "Organizing schedules and checklists"),
                  Opt("b", "Creating posters and themes"),
                  Opt("c", "Testing and reviewing equipment"),
                  Opt("d", "Giving a motivating speech") >>),
                tags |-> PList(<< PStr("C") >>) ]),
        PDict([ id |-> PStr("C2"),
                prompt |-> PStr("You are assigned to document a project. What do you do first?"),
                options |-> PList(<< Opt("a", "Create a clear template and file structure"),
                  Opt("b", "Design a cover page"),
                  Opt("c", "Interview team members"),
                  Opt("d", "Run a test of the final product") >>),
                tags |-> PList(<< PStr("C") >>) ]) >> ]

(***************************************************************************)
(* _enforce_riasec_distribution.  The quota table `desired` is a sequence  *)
(* of <<code, need>> pairs in the dict's order.                            *)
(***************************************************************************)
RECURSIVE SumNeeds(_, _)
SumNeeds(table, i) == IF i > Len(table) THEN 0 ELSE table[i][2] + SumNeeds(table, i + 1)

\* mutant: the number of categories for the sum of their quotas
TotalNeededAsCount(table) == Len(table)

\* total_needed = sum(desired.values())
TotalNeeded(table) == SumNeeds(table, 1)

\* desired.keys()
Keys(table) == {table[i][1] : i \in 1..Len(table)}

\* desired[code], for a key of the table
Need(table, code) == table[CHOOSE i \in 1..Len(table) : table[i][1] = code][2]

\* the id of a question of the selection
IdOf(q) == GetOr(q, "id", PStr("")).v

\* mutant: a question without primary category falls into every bucket
RECURSIVE OfPrimaryOrNone(_, _, _)
OfPrimaryOrNone(qs, code, i) ==
    IF i > Len(qs) THEN <<>>
    ELSE IF PrimaryOf(qs[i]) \in {code, NoPrimary}
         THEN <<qs[i]>> \o OfPrimaryOrNone(qs, code, i + 1)
         ELSE OfPrimaryOrNone(qs, code, i + 1)

RECURSIVE OfPrimary(_, _, _)
OfPrimary(qs, code, i) ==
    IF i > Len(qs) THEN <<>>
    ELSE IF PrimaryOf(qs[i]) = code
         THEN <<qs[i]>> \o OfPrimary(qs, code, i + 1)
         ELSE OfPrimary(qs, code, i + 1)

\* mutant: the bucket holds its candidates in reverse order
BucketReversed(qs, table, code) ==
    IF code \in Keys(table)
    THEN LET b == OfPrimary(qs, code, 1) IN [i \in 1..Len(b) |-> b[Len(b) + 1 - i]]
    ELSE <<>>

\* buckets[code] after bucketing the candidates
Bucket(qs, table, code) ==
    IF code \in Keys(table) THEN OfPrimary(qs, code, 1) ELSE <<>>

\* for item in take: skip an id already used, else select it.  st = [selected, used_ids]
RECURSIVE TakeItems(_, _, _)
TakeItems(take, j, st) ==
    IF j > Len(take) THEN st
    ELSE IF IdOf(take[j]) \in st.used_ids THEN TakeItems(take, j + 1, st)
    ELSE TakeItems(take, j + 1,
                   [selected |-> Append(st.selected, take[j]),
                    used_ids |-> st.used_ids \cup {IdOf(take[j])}])

\* mutant: the whole bucket is taken, without the [: need] slice
RECURSIVE PrimaryLoopWhole(_, _, _, _)
PrimaryLoopWhole(qs, table, i, st) ==
    IF i > Len(table) THEN st
    ELSE PrimaryLoopWhole(qs, table, i + 1, TakeItems(Bucket(qs, table, table[i][1]), 1, st))

RECURSIVE PrimaryLoop(_, _, _, _)
PrimaryLoop(qs, table, i, st) ==
    IF i > Len(table) THEN st
    ELSE PrimaryLoop(qs, table, i + 1,
                     TakeItems(Prefix(Bucket(qs, table, table[i][1]), table[i][2]), 1, st))

\* lines 267-284: bucket the candidates, take up to the quota from each bucket
PrimaryFill(qs, table) ==
    PrimaryLoop(qs, table, 1, [selected |-> <<>>, used_ids |-> {}])

\* new_id = cid; while new_id in used_ids: new_id = f"{cid}_{suffix}"; suffix += 1
RECURSIVE NextFreeId(_, _, _)
NextFreeId(cid, suffix, used) ==
    LET new_id == cid \o "_" \o ToString(suffix)
    IN IF new_id \in used THEN NextFreeId(cid, suffix + 1, used) ELSE new_id

\* mutant: one suffix is tried, without the loop
DedupIdOnce(cid, used) == IF cid \in used THEN cid \o "_1" ELSE cid

DedupId(cid, used) == IF cid \in used THEN NextFreeId(cid, 1, used) ELSE cid

\* mutant: the copy of the fallback record loses its tags
AddFallbackUntagged(candidate, st) ==
    LET new_id == DedupId(IdOf(candidate), st.used_ids)
        c == PDict([k \in DOMAIN candidate.v \ {"tags"} |-> candidate.v[k]])
    IN [selected |-> Append(st.selected, With(c, "id", PStr(new_id))),
        used_ids |-> st.used_ids \cup {new_id}]

\* c = {**candidate, "id": new_id}; selected.append(c); used_ids.add(new_id)
AddFallback(candidate, st) ==
    LET new_id == DedupId(IdOf(candidate), st.used_ids)
    IN [selected |-> Append(st.selected, With(candidate, "id", PStr(new_id))),
        used_ids |-> st.used_ids \cup {new_id}]

\* fallback_pools.get(code, [])
PoolOf(pools, code) == IF code \in DOMAIN pools THEN pools[code] ELSE <<>>

\* mutant: the deficit is taken against the whole selection
CountAll(sel, code) == Len(sel)

\* len(current): the selected questions whose primary category is code
CountOf(sel, code) == Len(OfPrimary(sel, code, 1))

\* mutant: the pool is read from its end
RECURSIVE FillFromEnd(_, _, _, _)
FillFromEnd(cands, j, deficit, st) ==
    IF j > Len(cands) \/ deficit <= 0 THEN st
    ELSE FillFromEnd(cands, j + 1, deficit - 1, AddFallback(cands[Len(cands) + 1 - j], st))

\* for candidate in candidates: if deficit <= 0: break; add it; deficit -= 1
RECURSIVE FillFrom(_, _, _, _)
FillFrom(cands, j, deficit, st) ==
    IF j > Len(cands) \/ deficit <= 0 THEN st
    ELSE FillFrom(cands, j + 1, deficit - 1, AddFallback(cands[j], st))

RECURSIVE DeficitLoop(_, _, _, _)
DeficitLoop(table, pools, i, st) ==
    IF i > Len(table) THEN st
    ELSE LET code == table[i][1]
             deficit == table[i][2] - CountOf(st.selected, code)
         IN IF deficit <= 0 THEN DeficitLoop(table, pools, i + 1, st)
            ELSE DeficitLoop(table, pools, i + 1,
                             FillFrom(PoolOf(pools, code), 1, deficit, st))

\* mutant: the deficit of the first category of the table is not filled
DeficitFillSkipsFirst(table, pools, st) == DeficitLoop(table, pools, 2, st)

\* lines 287-306: fill each category's deficit from its fallback pool
DeficitFill(table, pools, st) == DeficitLoop(table, pools, 1, st)

TopUpOrder == <<"R", "I", "A", "S", "E", "C">>

\* mutant: the inner loop adds the whole pool, without the break at the total
RECURSIVE TopUpPoolWhole(_, _, _, _)
TopUpPoolWhole(cands, j, total, st) ==
    IF j > Len(cands) THEN st
    ELSE TopUpPoolWhole(cands, j + 1, total, AddFallback(cands[j], st))

\* for candidate in pool: add it; if len(selected) >= total_needed: break
RECURSIVE TopUpPool(_, _, _, _)
TopUpPool(cands, j, total, st) ==
    IF j > Len(cands) THEN st
    ELSE LET next == AddFallback(cands[j], st)
         IN IF Len(next.selected) >= total THEN next
            ELSE TopUpPool(cands, j + 1, total, next)

\* for code in ["R","I","A","S","E","C"]: if len(selected) >= total_needed: break; ...
RECURSIVE TopUpPass(_, _, _, _)
TopUpPass(pools, k, total, st) ==
    IF k > Len(TopUpOrder) \/ Len(st.selected) >= total THEN st
    ELSE TopUpPass(pools, k + 1, total,
                   TopUpPool(PoolOf(pools, TopUpOrder[k]), 1, total, st))

\* lines 308-323: while len(selected) < total_needed: one pass over the pools
RECURSIVE TopUp(_, _, _)
TopUp(pools, total, st) ==
    IF Len(st.selected) >= total THEN st
    ELSE TopUp(pools, total, TopUpPass(pools, 1, total, st))

\* by_code[code]: the positions in the selection of the questions of a category
IndexesOf(sel, code) ==
    {i \in 1..Len(sel) : (IF PrimaryOf(sel[i]) = NoPrimary THEN "" ELSE PrimaryOf(sel[i])) = code}

\* mutant: the extras are dropped from the front, idxs[: len(idxs) - need]
ToRemoveFromFront(sel, table) ==
    UNION { LET idxs == IndexesOf(sel, table[k][1])
                need == table[k][2]
            IN IF Cardinality(idxs) > need
               THEN {i \in idxs : Cardinality({j \in idxs : j > i}) >= need}
               ELSE {}
            : k \in 1..Len(table) }

\* idxs[need:] for each category with len(idxs) > need
ToRemove(sel, table) ==
    UNION { LET idxs == IndexesOf(sel, table[k][1])
                need == table[k][2]
            IN IF Cardinality(idxs) > need
               THEN {i \in idxs : Cardinality({j \in idxs : j < i}) >= need}
               ELSE {}
            : k \in 1..Len(table) }

RECURSIVE Without(_, _, _)
Without(sel, drop, i) ==
    IF i > Len(sel) THEN <<>>
    ELSE IF i \in drop THEN Without(sel, drop, i + 1)
         ELSE <<sel[i]>> \o Without(sel, drop, i + 1)

\* lines 325-340: if len(selected) > total_needed: drop each category's extras
TrimSurplus(sel, table) ==
    IF Len(sel) > TotalNeeded(table) THEN Without(sel, ToRemove(sel, table), 1) ELSE sel

\* q["prompt"] = str(q.get("prompt") or q.get("question") or "").strip()
SelectedPrompt(q) == Strip(Str(Or(Or(Get(q, "prompt"), Get(q, "question")), PStr(""))))

\* lines 342-349, for one question: prompt string, string scenario, 4 options.
\* The code rewrites the selected dicts in place, so a selected candidate is changed
\* in the caller's list too; here `questions` keeps the argument as it was passed.
SanitizeQuestion(q) ==
    LET keys == IF "scenario" \in DOMAIN q.v /\ ~IsStr(q.v["scenario"])
                THEN (DOMAIN q.v \cup {"prompt", "options"}) \ {"scenario"}
                ELSE DOMAIN q.v \cup {"prompt", "options"}
    IN PDict([k \in keys |->
                CASE k = "prompt"  -> PStr(SelectedPrompt(q))
                  [] k = "options" -> PList(SanitizeOptions(Get(q, "options")))
                  [] OTHER         -> q.v[k]])

SanitizeSelected(sel) == [i \in 1..Len(sel) |-> SanitizeQuestion(sel[i])]

\* the whole function
EnforceRiasecDistribution(qs, table, profile) ==
    LET pools == FallbackByRiasec(profile)
        total == TotalNeeded(table)
        filled == TopUp(pools, total, DeficitFill(table, pools, PrimaryFill(qs, table)))
    IN Prefix(SanitizeSelected(TrimSurplus(filled.selected, table)), total)

RIASEC_COVERAGE_REQUIRED ==
    << <<"R", 2>>, <<"I", 2>>, <<"A", 2>>, <<"S", 2>>, <<"E", 1>>, <<"C", 1>> >>

(***************************************************************************)
(* generate_step1_questions: reading the model's text.                     *)
(***************************************************************************)
NoMatch == ""

Positions(text, ch) == {i \in 1..Len(text) : SubSeq(text, i, i) = ch}

Least(S) == CHOOSE i \in S : \A j \in S : i <= j
Greatest(S) == CHOOSE i \in S : \A j \in S : i >= j

\* re.search(r"\{[\s\S]*\}", text): from the first "{" to the last "}" after it
ReSearch(text) ==
    LET opens == Positions(text, "{")
        closes == Positions(text, "}")
    IN IF opens = {} THEN NoMatch
       ELSE IF {j \in closes : j > Least(opens)} = {} THEN NoMatch
       ELSE SubSeq(text, Least(opens), Greatest(closes))

\* mutant: x[i] = x[j] without the exchange
SwapOverwrite(x, i, j) == [k \in 1..Len(x) |-> IF k = i THEN x[j] ELSE x[k]]

\* random.shuffle(x): for i in reversed(range(1, len(x))): j = randbelow(i + 1); swap.
\* The last `draws` iterations (i = draws, ..., 1 in the code's 0-based count) draw j
\* freely, the earlier ones draw j = i: every order of the first draws + 1 elements.
Swap(x, i, j) == [k \in 1..Len(x) |-> IF k = i THEN x[j] ELSE IF k = j THEN x[i] ELSE x[k]]

RECURSIVE ShuffleFrom(_, _, _)
ShuffleFrom(x, i, draws) ==
    IF i < 2 THEN {x}
    ELSE IF i > draws + 1 THEN ShuffleFrom(x, i - 1, draws)
    ELSE UNION {ShuffleFrom(Swap(x, i, j), i - 1, draws) : j \in 1..i}

\* mutant: except ValueError
CaughtValueErrorOnly(exc) == exc \in {"JSONDecodeError"}

\* except Exception: every exception the try block can raise derives from Exception
Caught(exc) == exc \in {"APIError", "TypeError", "JSONDecodeError", "AttributeError"}

\* normalized[:10]
FinalSize == 10

(***************************************************************************)
(* Inputs.  A raw candidate is given by its JSON text and the value        *)
(* json.loads gives for it.                                                *)
(***************************************************************************)
junk ==
    [ json |-> "\"junk\"",
      val  |-> PStr("junk") ]

q_ra ==
    [ json |-> "{\"id\":\"r-a\",\"prompt\":\"Would you repair a bicycle?\",\"options\":[{\"id\":\"1\",\"text\":\"Yes\"},{\"id\":\"2\",\"text\":\"Maybe\"},{\"id\":\"3\",\"text\":\"Rarely\"},{\"id\":\"4\",\"text\":\"No\"}],\"tags\":[\"R\"]}",
      val  |-> PDict([id |-> PStr("r-a"), prompt |-> PStr("Would you repair a bicycle?"), options |-> PList(<<PDict([id |-> PStr("1"), text |-> PStr("Yes")]), PDict([id |-> PStr("2"), text |-> PStr("Maybe")]), PDict([id |-> PStr("3"), text |-> PStr("Rarely")]), PDict([id |-> PStr("4"), text |-> PStr("No")])>>), tags |-> PList(<<PStr("R")>>)]) ]

q_rb ==
    [ json |-> "{\"id\":\"r-b\",\"question\":\" Would you build a shed? \",\"options\":[{\"key\":\"x\",\"label\":\"Only choice\"}],\"tags\":[\"Realistic\"]}",
      val  |-> PDict([id |-> PStr("r-b"), question |-> PStr(" Would you build a shed? "), options |-> PList(<<PDict([key |-> PStr("x"), label |-> PStr("Only choice")])>>), tags |-> PList(<<PStr("Realistic")>>)]) ]

q_rc ==
    [ json |-> "{\"id\":\"r-c\",\"options\":\"nope\",\"tags\":[3,\" R \"]}",
      val  |-> PDict([id |-> PStr("r-c"), options |-> PStr("nope"), tags |-> PList(<<PInt(3), PStr(" R ")>>)]) ]

q_i ==
    [ json |-> "{\"id\":\"R1\",\"prompt\":\"Why is the sky blue?\",\"scenario\":1,\"options\":[{\"id\":\"x\",\"text\":\"Only choice\"}],\"tags\":[\"I\"]}",
      val  |-> PDict([id |-> PStr("R1"), prompt |-> PStr("Why is the sky blue?"), scenario |-> PInt(1), options |-> PList(<<PDict([id |-> PStr("x"), text |-> PStr("Only choice")])>>), tags |-> PList(<<PStr("I")>>)]) ]

q_s ==
    [ json |-> "{\"id\":\"R1_1\",\"prompt\":\"Would you tutor a friend?\",\"scenario\":\"Library\",\"options\":[{\"id\":\"a\",\"text\":\"First\"},{\"id\":\"a\",\"text\":\"Second\"}],\"tags\":[\"x\",\"Social\"]}",
      val  |-> PDict([id |-> PStr("R1_1"), prompt |-> PStr("Would you tutor a friend?"), scenario |-> PStr("Library"), options |-> PList(<<PDict([id |-> PStr("a"), text |-> PStr("First")]), PDict([id |-> PStr("a"), text |-> PStr("Second")])>>), tags |-> PList(<<PStr("x"), PStr("Social")>>)]) ]

q_dup ==
    [ json |-> "{\"id\":\"r-a\",\"prompt\":\"Untagged duplicate\"}",
      val  |-> PDict([id |-> PStr("r-a"), prompt |-> PStr("Untagged duplicate")]) ]

q_noid ==
    [ json |-> "{\"prompt\":\"No id\",\"tags\":\"R\"}",
      val  |-> PDict([prompt |-> PStr("No id"), tags |-> PStr("R")]) ]

q_e ==
    [ json |-> "{\"id\":\" q1 \",\"prompt\":\"Would you run a stall?\",\"tags\":[\"E\"],\"options\":[{\"id\":\"a\",\"text\":\"Yes\"},\"b\",{\"id\":\"c\",\"text\":\"\"}]}",
      val  |-> PDict([id |-> PStr(" q1 "), prompt |-> PStr("Would you run a stall?"), tags |-> PList(<<PStr("E")>>), options |-> PList(<<PDict([id |-> PStr("a"), text |-> PStr("Yes")]), PStr("b"), PDict([id |-> PStr("c"), text |-> PStr("")])>>)]) ]

doc_empty ==
    [ json |-> "{}",
      val  |-> PDict(<<>>) ]

doc_null ==
    [ json |-> "{\"questions\":null}",
      val  |-> PDict([questions |-> PNone]) ]

doc_text ==
    [ json |-> "{\"questions\":\"none\"}",
      val  |-> PDict([questions |-> PStr("none")]) ]

doc_dict ==
    [ json |-> "{\"questions\":{\"id\":\"r-a\",\"tags\":[\"R\"]}}",
      val  |-> PDict([questions |-> PDict([id |-> PStr("r-a"), tags |-> PList(<<PStr("R")>>)])]) ]

doc_other ==
    [ json |-> "{\"items\":[]}",
      val  |-> PDict([items |-> PList(<<>>)]) ]

RawElems == {junk, q_ra, q_rb, q_rc, q_i, q_s, q_dup, q_noid, q_e}

RECURSIVE SeqsUpTo(_, _)
SeqsUpTo(S, n) ==
    IF n = 0 THEN {<<>>}
    ELSE LET shorter == SeqsUpTo(S, n - 1)
         IN shorter \cup {Append(s, e) : s \in {t \in shorter : Len(t) = n - 1}, e \in S}

\* the candidates a model response is built from
ResponseElems == {junk, q_ra, q_rc, q_i, q_s, q_dup}

RawLists == SeqsUpTo(ResponseElems, MaxRaw)

RECURSIVE JoinJson(_, _)
JoinJson(elems, i) ==
    IF i > Len(elems) THEN ""
    ELSE (IF i > 1 THEN "," ELSE "") \o elems[i].json \o JoinJson(elems, i + 1)

Values(elems) == [i \in 1..Len(elems) |-> elems[i].val]

\* the document {"questions": [...]} of a list of raw candidates
DocOf(elems) ==
    [ json |-> "{\"questions\":[" \o JoinJson(elems, 1) \o "]}",
      val  |-> PDict([questions |-> PList(Values(elems))]) ]

OddDocs == {doc_empty, doc_null, doc_text, doc_dict, doc_other}

JsonDocs == {DocOf(elems) : elems \in RawLists} \cup OddDocs

\* json.loads(s): the value of a document, or a JSONDecodeError
JsonLoads(s) ==
    IF \E d \in JsonDocs : d.json = s
    THEN [ok |-> TRUE, val |-> (CHOOSE d \in JsonDocs : d.json = s).val]
    ELSE [ok |-> FALSE, val |-> PNone]

\* texts with no object in them, and texts whose matched part is no JSON
UnmatchedTexts == {"", "I cannot help with that.", "{\"questions\": [", "} nothing {"}
UnparsableTexts == {"{not json}", "{\"questions\":[}", "{} and {\"questions\":[]}"}

ResponseTexts ==
    UnmatchedTexts \cup UnparsableTexts
      \cup {d.json : d \in JsonDocs}
      \cup {"Here is the JSON:\n" \o d.json \o "\nGood luck!" : d \in OddDocs \cup {DocOf(<<q_ra>>)}}

Raises(exc) == [t |-> "raise", v |-> exc]
Content(c)  == [t |-> "content", v |-> c]

\* what self.client.chat.completions.create can do
Responses ==
    {Raises("APIError"), Content(PNone)} \cup {Content(PStr(s)) : s \in ResponseTexts}

Profiles ==
    { PDict([name |-> PNone, grade |-> PNone, subject_stream |-> PNone,
             hobbies_and_passions |-> PList(<<>>), dream_job |-> PNone,
             city |-> PNone, country |-> PNone]),
      PDict([name |-> PStr("Asha"), grade |-> PStr("Grade 9"), subject_stream |-> PStr("Science"),
             hobbies_and_passions |-> PList(<<PStr("chess"), PStr("music")>>),
             dream_job |-> PStr("pilot"), city |-> PStr("Pune"), country |-> PStr("India")]) }

\* normalized candidate lists: what the normalizer returns for lists of raw records
CandElems == {q_ra, q_rb, q_rc, q_i, q_s, q_dup}

NormalizedLists ==
    {NormalizeStep1Questions(PList(Values(elems))) : elems \in SeqsUpTo(CandElems, MaxCands)}

\* the allocator on its own is given the populated profile
AllocProfiles == {p \in Profiles : Truthy(Get(p, "name"))}

QuotaTables ==
    { RIASEC_COVERAGE_REQUIRED,
      << <<"R", 2>> >>,
      << <<"I", 3>>, <<"R", 0>> >>,
      << <<"C", 1>>, <<"S", 1>>, <<"I", 1>> >>,
      << <<"R", 3>>, <<"I", 3>>, <<"A", 3>>, <<"S", 2>>, <<"E", 1>>, <<"C", 1>> >> }

NormalizerInputs ==
    {PNone, PStr("questions"), PInt(10), PDict([id |-> PStr("r-a")])}
      \cup {PList(Values(elems)) : elems \in SeqsUpTo(RawElems, MaxCands)}

OptionElems ==
    { PStr("junk"),
      PDict([id |-> PStr("a"), text |-> PStr("Yes")]),
      PDict([id |-> PStr(" a "), text |-> PStr("Also a ")]),
      PDict([key |-> PStr("b"), label |-> PStr("Bee")]),
      PDict([id |-> PStr("x"), text |-> PStr("  ")]),
      PDict([id |-> PInt(0), key |-> PStr("k"), text |-> PInt(5)]),
      PDict([id |-> PStr("d"), text |-> PStr("Dee"), note |-> PNone]) }

SanitizerInputs ==
    { PNone, PStr("abcd"), PInt(4), PDict([id |-> PStr("a"), text |-> PStr("Yes")]) }
      \cup { PList(s) : s \in SeqsUpTo(OptionElems, MaxOptions) }

(***************************************************************************)
(* Arguments of the classifier.                                            *)
(***************************************************************************)
TagElems ==
    { PStr("R"), PStr(" S "), PStr("Investigative"), PStr("E"),
      PStr("x"), PStr("realistic"), PInt(3) }

ClassifierInputs ==
    { PNone, PStr("R"), PInt(0), PDict([R |-> PStr("R")]) }
      \cup { PList(s) : s \in SeqsUpTo(TagElems, MaxTags) }

(***************************************************************************)
(* Selections handed to the trim-surplus block on its own.                 *)
(***************************************************************************)
\* normalized candidates, one per raw record
TrimElems == UNION {Range(NormalizeStep1Questions(PList(<<e.val>>))) : e \in CandElems}

\* selections of distinct ids, as the id-collision guard keeps them
TrimInputs ==
    {s \in SeqsUpTo(TrimElems, MaxSelected) :
        \A i, j \in 1..Len(s) : i # j => IdOf(s[i]) # IdOf(s[j])}

(***************************************************************************)
(* State machine.                                                          *)
(***************************************************************************)
Nothing == <<>>


InitSanVars   == options = PNone /\ valid = Nothing /\ again = Nothing
InitNormVars  == candidates = PNone /\ normalized = Nothing
InitAllocVars ==
    /\ questions = Nothing /\ desired = Nothing /\ selected = Nothing
    /\ used_ids = {} /\ fallback_pools = Nothing /\ enforced = Nothing
InitPipeVars  ==
    /\ response = PNone /\ shuffled = Nothing /\ shuffles = 0
    /\ result = Nothing /\ raised = FALSE
InitClsVars   == tags_arg = PNone /\ primary = Nothing
InitLoopVars  == cursor = NoCursor

\* ---- _sanitize_options, called once and then on its own return value ----
InitSan ==
    /\ pc = "sanitize" /\ path = "direct"
    /\ options \in SanitizerInputs /\ valid = Nothing /\ again = Nothing
    /\ InitNormVars /\ InitAllocVars /\ InitPipeVars /\ InitClsVars
    /\ InitLoopVars
    /\ student_profile = PNone

Sanitize ==
    /\ pc = "sanitize"
    /\ valid' = SanitizeOptions(options)
    /\ pc' = "sanitized"
    /\ UNCHANGED <<loopVars, clsVars, path, options, again, normVars, allocVars, pipeVars>>

SanitizeAgain ==
    /\ pc = "sanitized"
    /\ again' = SanitizeOptions(PList(valid))
    /\ pc' = "sanitized_twice"
    /\ UNCHANGED <<loopVars, clsVars, path, options, valid, normVars, allocVars, pipeVars>>

NextSan == Sanitize \/ SanitizeAgain

SpecSan == InitSan /\ [][NextSan]_vars

\* ---- generate_step1_questions ----
Init ==
    /\ pc = "call" /\ path = "normal"
    /\ student_profile \in Profiles
    /\ InitSanVars /\ InitNormVars /\ InitAllocVars /\ InitPipeVars /\ InitClsVars
    /\ InitLoopVars

\* lines 45-113: build the prompt and call the model; the call returns or raises
CallLLM ==
    /\ pc = "call"
    /\ \E r \in Responses :
         /\ response' = r
         /\ pc' = IF r.t # "raise" THEN "parse"
                  ELSE IF Caught(r.v) THEN "except" ELSE "propagated"
         /\ raised' = (r.t = "raise" /\ ~Caught(r.v))
    /\ UNCHANGED <<loopVars, clsVars, path, sanVars, normVars, allocVars, student_profile,
                   shuffled, shuffles, result>>

\* lines 116-118: text -> match -> data; exc is the exception raised, if any
ReadResponse(content) ==
    IF ~IsStr(content) THEN [exc |-> "TypeError", data |-> PNone]
    ELSE LET match == ReSearch(content.v)
         IN IF match = NoMatch
            THEN [exc |-> "", data |-> PDict([questions |-> PList(<<>>)])]
            ELSE IF JsonLoads(match).ok
                 THEN [exc |-> "", data |-> JsonLoads(match).val]
                 ELSE [exc |-> "JSONDecodeError", data |-> PNone]

\* lines 115-121: parse the text; data.get("questions", []) goes to the normalizer
ParseResponse ==
    /\ pc = "parse"
    /\ LET r == ReadResponse(response.v)
       IN IF r.exc = ""
          THEN /\ candidates' = GetOr(r.data, "questions", PList(<<>>))
               /\ pc' = "normalize"
               /\ raised' = raised
          ELSE /\ candidates' = candidates
               /\ pc' = IF Caught(r.exc) THEN "except" ELSE "propagated"
               /\ raised' = ~Caught(r.exc)
    /\ UNCHANGED <<loopVars, clsVars, path, sanVars, normalized, allocVars, student_profile,
                   response, shuffled, shuffles, result>>

\* line 121 (and 123-124: the allocator is called with the default table)
Normalize ==
    /\ pc = "normalize"
    /\ normalized' = NormalizeStep1Questions(candidates)
    /\ IF path = "direct"
       THEN /\ pc' = "normalized"
            /\ UNCHANGED <<clsVars, questions, desired>>
       ELSE /\ pc' = "primary"
            /\ questions' = normalized'
            /\ desired' = RIASEC_COVERAGE_REQUIRED
    /\ UNCHANGED <<loopVars, clsVars, path, sanVars, candidates, selected, used_ids,
                   fallback_pools, enforced, pipeVars>>

\* lines 128-130: the handler calls the allocator with no candidates
Except ==
    /\ pc = "except"
    /\ path' = "fallback"
    /\ questions' = <<>>
    /\ desired' = RIASEC_COVERAGE_REQUIRED
    /\ pc' = "primary"
    /\ UNCHANGED <<loopVars, clsVars, sanVars, normVars, selected, used_ids, fallback_pools,
                   enforced, pipeVars>>

\* ---- _enforce_riasec_distribution, one action per stage ----
\* lines 267-284
TakeFromBuckets ==
    /\ pc = "primary"
    /\ LET st == PrimaryFill(questions, desired)
       IN selected' = st.selected /\ used_ids' = st.used_ids
    /\ pc' = "deficit"
    /\ UNCHANGED <<loopVars, clsVars, path, sanVars, normVars, questions, desired,
                   fallback_pools, enforced, pipeVars>>

\* mutant: the quota table is walked from an arbitrary category on, as an unordered
\* collection would be
FillDeficitsAnyOrder ==
    /\ pc = "deficit"
    /\ fallback_pools' = FallbackByRiasec(student_profile)
    /\ \E r \in 0..Len(desired) :
         LET table == SubSeq(desired, r + 1, Len(desired)) \o SubSeq(desired, 1, r)
             st == DeficitFill(table, fallback_pools',
                               [selected |-> selected, used_ids |-> used_ids])
         IN selected' = st.selected /\ used_ids' = st.used_ids
    /\ pc' = "topup"
    /\ UNCHANGED <<loopVars, clsVars, path, sanVars, normVars, questions, desired, enforced,
                   pipeVars>>

\* mutant: the pool record itself is renamed and selected (candidate["id"] = new_id
\* in place of the copy {**candidate, "id": new_id})
FillDeficitsInPlace ==
    /\ pc = "deficit"
    /\ LET pools == FallbackByRiasec(student_profile)
           st == DeficitFill(desired, pools, [selected |-> selected, used_ids |-> used_ids])
           added == {st.selected[k] : k \in (Len(selected) + 1)..Len(st.selected)}
           Same(a, r) == Get(a, "prompt") = Get(r, "prompt")
       IN /\ selected' = st.selected /\ used_ids' = st.used_ids
          /\ fallback_pools' =
                [code \in DOMAIN pools |->
                    [j \in 1..Len(pools[code]) |->
                        IF \E a \in added : Same(a, pools[code][j])
                        THEN CHOOSE a \in added : Same(a, pools[code][j])
                        ELSE pools[code][j]]]
    /\ pc' = "topup"
    /\ UNCHANGED <<loopVars, clsVars, path, sanVars, normVars, questions, desired, enforced,
                   pipeVars>>

\* lines 286-306
FillDeficits ==
    /\ pc = "deficit"
    /\ fallback_pools' = FallbackByRiasec(student_profile)
    /\ LET st == DeficitFill(desired, fallback_pools',
                             [selected |-> selected, used_ids |-> used_ids])
       IN selected' = st.selected /\ used_ids' = st.used_ids
    /\ pc' = "topup"
    /\ UNCHANGED <<loopVars, clsVars, path, sanVars, normVars, questions, desired, enforced,
                   pipeVars>>

\* lines 308-323
TopUpShort ==
    /\ pc = "topup"
    /\ LET st == TopUp(fallback_pools, TotalNeeded(desired),
                       [selected |-> selected, used_ids |-> used_ids])
       IN selected' = st.selected /\ used_ids' = st.used_ids
    /\ pc' = "trim"
    /\ UNCHANGED <<loopVars, clsVars, path, sanVars, normVars, questions, desired,
                   fallback_pools, enforced, pipeVars>>

\* lines 325-340
TrimOverfull ==
    /\ pc = "trim"
    /\ selected' = TrimSurplus(selected, desired)
    /\ pc' = "sanitize_selected"
    /\ UNCHANGED <<loopVars, clsVars, path, sanVars, normVars, questions, desired, used_ids,
                   fallback_pools, enforced, pipeVars>>

\* lines 342-350
SanitizeAndReturn ==
    /\ pc = "sanitize_selected"
    /\ selected' = SanitizeSelected(selected)
    /\ enforced' = Prefix(selected', TotalNeeded(desired))
    /\ pc' = IF path = "direct" THEN "returned" ELSE "shuffle"
    /\ UNCHANGED <<loopVars, clsVars, path, sanVars, normVars, questions, desired, used_ids,
                   fallback_pools, pipeVars>>

\* lines 125 and 131
Shuffle ==
    /\ pc = "shuffle"
    /\ shuffled' \in ShuffleFrom(enforced, Len(enforced), ShuffleDraws)
    /\ shuffles' = shuffles + 1
    /\ pc' = "resequence"
    /\ UNCHANGED <<loopVars, clsVars, path, sanVars, normVars, allocVars, student_profile,
                   response, result, raised>>

\* mutant: the slice after the shuffle cuts the list short
ResequenceTruncated ==
    /\ pc = "resequence"
    /\ result' = ResequenceQuestionIds(Prefix(shuffled, FinalSize - 1))
    /\ pc' = "done"
    /\ UNCHANGED <<loopVars, clsVars, path, sanVars, normVars, allocVars, student_profile,
                   response, shuffled, shuffles, raised>>

\* lines 126-127 and 132-133
Resequence ==
    /\ pc = "resequence"
    /\ result' = ResequenceQuestionIds(Prefix(shuffled, FinalSize))
    /\ pc' = "done"
    /\ UNCHANGED <<loopVars, clsVars, path, sanVars, normVars, allocVars, student_profile,
                   response, shuffled, shuffles, raised>>

NextAlloc ==
    \/ TakeFromBuckets \/ FillDeficits \/ TopUpShort \/ TrimOverfull
    \/ SanitizeAndReturn

Next ==
    \/ CallLLM \/ ParseResponse \/ Normalize \/ Except
    \/ NextAlloc
    \/ Shuffle \/ Resequence

Spec == Init /\ [][Next]_vars

\* ---- _normalize_step1_questions on its own ----
InitNorm ==
    /\ pc = "normalize" /\ path = "direct"
    /\ candidates \in NormalizerInputs /\ normalized = Nothing
    /\ InitSanVars /\ InitAllocVars /\ InitPipeVars /\ InitClsVars
    /\ InitLoopVars
    /\ student_profile = PNone

NextNorm == Normalize

SpecNorm == InitNorm /\ [][NextNorm]_vars

\* ---- _enforce_riasec_distribution on its own ----
InitAlloc ==
    /\ pc = "primary" /\ path = "direct"
    /\ questions \in NormalizedLists
    /\ desired \in QuotaTables
    /\ student_profile \in AllocProfiles
    /\ selected = Nothing /\ used_ids = {} /\ fallback_pools = Nothing
    /\ enforced = Nothing
    /\ InitSanVars /\ InitNormVars /\ InitPipeVars /\ InitClsVars
    /\ InitLoopVars

SpecAlloc == InitAlloc /\ [][NextAlloc]_vars

\* ---- _extract_riasec_primary on its own ----
InitCls ==
    /\ pc = "classify" /\ path = "direct"
    /\ tags_arg \in ClassifierInputs /\ primary = Nothing
    /\ InitSanVars /\ InitNormVars /\ InitAllocVars /\ InitPipeVars /\ InitLoopVars
    /\ student_profile = PNone

\* lines 235-258
Classify ==
    /\ pc = "classify"
    /\ primary' = ExtractRiasecPrimary(tags_arg)
    /\ pc' = "classified"
    /\ UNCHANGED <<loopVars, path, sanVars, normVars, allocVars, pipeVars, tags_arg>>

NextCls == Classify

SpecCls == InitCls /\ [][NextCls]_vars

\* ---- the trim-surplus block (lines 324-340) on its own ----
InitTrim ==
    /\ pc = "trim_only" /\ path = "direct"
    /\ selected \in TrimInputs
    /\ used_ids = {IdOf(selected[i]) : i \in 1..Len(selected)}
    /\ desired \in QuotaTables
    /\ questions = Nothing /\ fallback_pools = Nothing /\ enforced = Nothing
    /\ InitSanVars /\ InitNormVars /\ InitPipeVars /\ InitClsVars
    /\ InitLoopVars
    /\ student_profile = PNone

\* lines 324-340
Trim ==
    /\ pc = "trim_only"
    /\ selected' = TrimSurplus(selected, desired)
    /\ pc' = "trimmed"
    /\ UNCHANGED <<loopVars, path, sanVars, normVars, questions, desired, used_ids, fallback_pools,
                   enforced, pipeVars, clsVars>>

NextTrim == Trim

SpecTrim == InitTrim /\ [][NextTrim]_vars

\* ---- deficit fill and top-up (lines 286-323), one statement at a time ----
\* the state at line 287: primary fill is done and the fallback pools are built
InitSteps ==
    /\ pc = "deficit_for" /\ path = "direct"
    /\ questions \in {qs \in NormalizedLists : Len(qs) <= MaxStepCands}
    /\ desired \in QuotaTables
    /\ student_profile \in AllocProfiles
    /\ selected = PrimaryFill(questions, desired).selected
    /\ used_ids = PrimaryFill(questions, desired).used_ids
    /\ fallback_pools = FallbackByRiasec(student_profile)
    /\ enforced = Nothing
    /\ cursor = [NoCursor EXCEPT !.i = 1]
    /\ InitSanVars /\ InitNormVars /\ InitPipeVars /\ InitClsVars

\* the pool the current loop walks and its current candidate
CursorPool ==
    IF pc \in {"deficit_candidate", "deficit_dedup"}
    THEN PoolOf(fallback_pools, desired[cursor.i][1])
    ELSE PoolOf(fallback_pools, TopUpOrder[cursor.k])

CursorCandidate == CursorPool[cursor.j]

\* lines 287-292: for code, need in desired.items(): ... if deficit <= 0: continue
DeficitFor ==
    /\ pc = "deficit_for"
    /\ IF cursor.i > Len(desired)
       THEN pc' = "while" /\ cursor' = cursor
       ELSE LET deficit == desired[cursor.i][2] - CountOf(selected, desired[cursor.i][1])
            IN IF deficit <= 0
               THEN pc' = pc /\ cursor' = [cursor EXCEPT !.i = @ + 1]
               ELSE /\ pc' = "deficit_candidate"
                    /\ cursor' = [cursor EXCEPT !.j = 1, !.deficit = deficit]
    /\ UNCHANGED <<path, sanVars, normVars, allocVars, pipeVars, clsVars>>

\* lines 293-298: for candidate in candidates: if deficit <= 0: break; new_id = cid
DeficitCandidate ==
    /\ pc = "deficit_candidate"
    /\ IF cursor.j > Len(CursorPool) \/ cursor.deficit <= 0
       THEN pc' = "deficit_for" /\ cursor' = [cursor EXCEPT !.i = @ + 1]
       ELSE /\ pc' = "deficit_dedup"
            /\ cursor' = [cursor EXCEPT !.new_id = IdOf(CursorCandidate), !.suffix = 1]
    /\ UNCHANGED <<path, sanVars, normVars, allocVars, pipeVars, clsVars>>

\* mutant: the suffix is not incremented
DedupWhileSameSuffix ==
    /\ pc \in {"deficit_dedup", "topup_dedup"}
    /\ cursor.new_id \in used_ids
    /\ cursor' = [cursor EXCEPT
                    !.new_id = IdOf(CursorCandidate) \o "_" \o ToString(cursor.suffix)]
    /\ UNCHANGED <<pc, path, sanVars, normVars, allocVars, pipeVars, clsVars>>

\* lines 299-301 and 316-318: while new_id in used_ids: new_id = f"{cid}_{suffix}"; suffix += 1
DedupWhile ==
    /\ pc \in {"deficit_dedup", "topup_dedup"}
    /\ cursor.new_id \in used_ids
    /\ cursor' = [cursor EXCEPT
                    !.new_id = IdOf(CursorCandidate) \o "_" \o ToString(cursor.suffix),
                    !.suffix = @ + 1]
    /\ UNCHANGED <<pc, path, sanVars, normVars, allocVars, pipeVars, clsVars>>

\* lines 302-305: c = {**candidate, "id": new_id}; append; used_ids.add; deficit -= 1
DeficitAppend ==
    /\ pc = "deficit_dedup"
    /\ cursor.new_id \notin used_ids
    /\ selected' = Append(selected, With(CursorCandidate, "id", PStr(cursor.new_id)))
    /\ used_ids' = used_ids \cup {cursor.new_id}
    /\ cursor' = [cursor EXCEPT !.deficit = @ - 1, !.j = @ + 1]
    /\ pc' = "deficit_candidate"
    /\ UNCHANGED <<path, sanVars, normVars, questions, desired, fallback_pools, enforced,
                   pipeVars, clsVars>>

\* line 308: while len(selected) < total_needed
TopUpWhile ==
    /\ pc = "while"
    /\ IF Len(selected) < TotalNeeded(desired)
       THEN pc' = "topup_for" /\ cursor' = [cursor EXCEPT !.k = 1]
       ELSE pc' = "filled" /\ cursor' = cursor
    /\ UNCHANGED <<path, sanVars, normVars, allocVars, pipeVars, clsVars>>

\* lines 309-311: for code in [...]: if len(selected) >= total_needed: break
TopUpFor ==
    /\ pc = "topup_for"
    /\ IF cursor.k > Len(TopUpOrder) \/ Len(selected) >= TotalNeeded(desired)
       THEN pc' = "while" /\ cursor' = cursor
       ELSE pc' = "topup_candidate" /\ cursor' = [cursor EXCEPT !.j = 1]
    /\ UNCHANGED <<path, sanVars, normVars, allocVars, pipeVars, clsVars>>

\* lines 312-315: for candidate in fallback_pools.get(code, []): new_id = cid; suffix = 1
TopUpCandidate ==
    /\ pc = "topup_candidate"
    /\ IF cursor.j > Len(CursorPool)
       THEN pc' = "topup_for" /\ cursor' = [cursor EXCEPT !.k = @ + 1]
       ELSE /\ pc' = "topup_dedup"
            /\ cursor' = [cursor EXCEPT !.new_id = IdOf(CursorCandidate), !.suffix = 1]
    /\ UNCHANGED <<path, sanVars, normVars, allocVars, pipeVars, clsVars>>

\* lines 319-323: append the copy; if len(selected) >= total_needed: break
TopUpAppend ==
    /\ pc = "topup_dedup"
    /\ cursor.new_id \notin used_ids
    /\ selected' = Append(selected, With(CursorCandidate, "id", PStr(cursor.new_id)))
    /\ used_ids' = used_ids \cup {cursor.new_id}
    /\ IF Len(selected') >= TotalNeeded(desired)
       THEN pc' = "topup_for" /\ cursor' = [cursor EXCEPT !.k = @ + 1]
       ELSE pc' = "topup_candidate" /\ cursor' = [cursor EXCEPT !.j = @ + 1]
    /\ UNCHANGED <<path, sanVars, normVars, questions, desired, fallback_pools, enforced,
                   pipeVars, clsVars>>

NextSteps ==
    \/ DeficitFor \/ DeficitCandidate \/ DedupWhile \/ DeficitAppend
    \/ TopUpWhile \/ TopUpFor \/ TopUpCandidate \/ TopUpAppend

SpecSteps == InitSteps /\ [][NextSteps]_vars

\* the interpreter always runs the next statement of the function
SpecStepsFair == SpecSteps /\ WF_vars(NextSteps)

(***************************************************************************)
(* Properties.  The helpers below count and compare on their own, without  *)
(* the operators of the allocator.                                         *)
(***************************************************************************)
\* sum of the quotas of a table
QuotaTotal(table) ==
    LET f[i \in 0..Len(table)] == IF i = 0 THEN 0 ELSE f[i - 1] + table[i][2]
    IN f[Len(table)]

\* number of questions of a list whose primary category is code
Tally(qs, code) == Cardinality({i \in 1..Len(qs) : PrimaryOf(qs[i]) = code})

\* quota of a category in a table, 0 when the table does not name it
QuotaOf(table, code) ==
    IF \E k \in 1..Len(table) : table[k][1] = code
    THEN table[CHOOSE k \in 1..Len(table) : table[k][1] = code][2]
    ELSE 0

Max0(n) == IF n > 0 THEN n ELSE 0

\* the fallback bank covers every category's deficit: quotas are non-negative and
\* what the candidates' bucket leaves open is at most the size of the category's pool
BankAdequate ==
    \A k \in 1..Len(desired) :
        /\ desired[k][2] >= 0
        /\ Max0(desired[k][2] - Tally(questions, desired[k][1]))
             <= (IF desired[k][1] \in DOMAIN FallbackByRiasec(student_profile)
                 THEN Len(FallbackByRiasec(student_profile)[desired[k][1]]) ELSE 0)

HasId(qs, id) == \E i \in 1..Len(qs) : Get(qs[i], "id") = PStr(id)

\* C1: with an adequate bank, the allocator returns exactly sum-of-quotas questions.
C1_TotalSize ==
    (pc = "returned" /\ BankAdequate) => Len(enforced) = QuotaTotal(desired)

C1_Witness ==
    /\ pc = "returned" /\ BankAdequate
    /\ desired = RIASEC_COVERAGE_REQUIRED
    /\ Len(questions) = 3
    /\ HasId(enforced, "r-a") /\ HasId(enforced, "A1")
    /\ Len(enforced) = 10

\* C2: with an adequate bank, every category has exactly its quota of returned
\* questions, the category being the one the classifier reads from the tags.
C2_QuotaSatisfied ==
    (pc = "returned" /\ BankAdequate) =>
        \A code \in RiasecCodes : Tally(enforced, code) = QuotaOf(desired, code)

C2_Witness ==
    /\ pc = "returned" /\ BankAdequate
    /\ desired = RIASEC_COVERAGE_REQUIRED
    /\ HasId(enforced, "r-a") /\ HasId(enforced, "R1") /\ HasId(enforced, "R1_1")
    /\ HasId(enforced, "R1_2")
    /\ Tally(enforced, "R") = 2 /\ Tally(enforced, "I") = 2 /\ Tally(enforced, "E") = 1

\* the three upstream failures: the call raises, the text holds no object, the
\* matched text does not parse (a response without text fails the same way)
UpstreamFailed ==
    \/ response.t = "raise"
    \/ /\ response.t = "content"
       /\ \/ ~IsStr(response.v)
          \/ ReSearch(response.v.v) = NoMatch
          \/ ~JsonLoads(ReSearch(response.v.v)).ok

WithoutId(q) == PDict([k \in DOMAIN q.v \ {"id"} |-> q.v[k]])

\* the same questions, ids aside, in any order
SameUpToOrder(a, b) ==
    /\ Len(a) = Len(b)
    /\ \A x \in {WithoutId(a[i]) : i \in 1..Len(a)} \cup {WithoutId(b[i]) : i \in 1..Len(b)} :
          Cardinality({i \in 1..Len(a) : WithoutId(a[i]) = x})
            = Cardinality({i \in 1..Len(b) : WithoutId(b[i]) = x})

\* C3: an upstream failure never leaves generate_step1_questions as an error, and
\* the returned set is the one built from no candidates: 10 questions, the default
\* quota in every category.
C3_FallbackRobust ==
    UpstreamFailed =>
        /\ ~raised /\ pc # "propagated"
        /\ pc = "done" =>
             /\ SameUpToOrder(result, EnforceRiasecDistribution(<<>>, RIASEC_COVERAGE_REQUIRED,
                                                                student_profile))
             /\ Len(result) = 10
             /\ \A code \in RiasecCodes :
                  Tally(result, code) = QuotaOf(RIASEC_COVERAGE_REQUIRED, code)

C3_Witness ==
    /\ pc = "done" /\ response.t = "content" /\ IsStr(response.v)
    /\ ReSearch(response.v.v) # NoMatch
    /\ ~JsonLoads(ReSearch(response.v.v)).ok
    /\ path = "fallback" /\ Len(result) = 10

\* C4: the returned list carries the ids q1..q10 by position, on both paths.
C4_PositionalIds ==
    pc = "done" =>
        /\ \A k \in 1..Len(result) : Get(result[k], "id") = PStr("q" \o ToString(k))
        /\ {Get(result[k], "id").v : k \in 1..Len(result)}
             = {"q" \o ToString(k) : k \in 1..QuotaTotal(RIASEC_COVERAGE_REQUIRED)}
        /\ Len(result) = QuotaTotal(RIASEC_COVERAGE_REQUIRED)

C4_Witness ==
    /\ pc = "done" /\ path = "normal" /\ shuffled # enforced
    /\ \E k \in 1..Len(shuffled) :
         /\ Get(shuffled[k], "id") = PStr("r-a")
         /\ Get(result[k], "id") = PStr("q" \o ToString(k))
         /\ k # 1

\* a well-shaped option: a record of a non-empty trimmed id and a non-empty trimmed text
GoodOption(o) ==
    /\ IsDict(o) /\ DOMAIN o.v = {"id", "text"}
    /\ IsStr(o.v["id"]) /\ o.v["id"].v # "" /\ Strip(o.v["id"].v) = o.v["id"].v
    /\ IsStr(o.v["text"]) /\ o.v["text"].v # "" /\ Strip(o.v["text"].v) = o.v["text"].v

\* C5: whatever its argument, the sanitizer returns exactly 4 well-shaped options.
C5_FourOptions ==
    pc \in {"sanitized", "sanitized_twice"} =>
        /\ Len(valid) = 4
        /\ \A i \in 1..Len(valid) : GoodOption(valid[i])

C5_Witness ==
    /\ pc = "sanitized" /\ IsList(options) /\ Len(options.v) = 4
    /\ Len(ValidOptions(options)) = 2
    /\ \E i \in 1..Len(options.v) : ~IsDict(options.v[i])
    /\ valid[1].v["id"].v = "a" /\ valid[3].v["id"].v = "c"
    /\ Len(valid) = 4

DistinctOptionIds(opts) ==
    \A i, j \in 1..Len(opts) : i # j => opts[i].v["id"] # opts[j].v["id"]

\* C6: in every returned question the 4 option ids are pairwise distinct.
C6_OptionIdsDistinct ==
    pc = "done" => \A k \in 1..Len(result) : DistinctOptionIds(Get(result[k], "options").v)

\* candidate i of the allocator's argument is the returned question j
SelectedAs(i, j) ==
    /\ Get(enforced[j], "id") = Get(questions[i], "id")
    /\ Get(enforced[j], "tags") = Get(questions[i], "tags")
    /\ Get(enforced[j], "prompt") = Get(questions[i], "prompt")

\* a selected candidate tagged I that has exactly one valid option
LoneOptionCase(i, j) ==
    /\ PrimaryOf(questions[i]) = "I"
    /\ Len(ValidOptions(Get(questions[i], "options"))) = 1
    /\ SelectedAs(i, j)

\* C7 as stated: the lone option is kept and 3 defaults with other ids are added.
C7_AsStated ==
    pc = "returned" =>
        \A i \in 1..Len(questions), j \in 1..Len(enforced) :
            LoneOptionCase(i, j) =>
                LET own == ValidOptions(Get(questions[i], "options"))[1]
                    opts == Get(enforced[j], "options").v
                IN /\ Len(opts) = 4
                   /\ \E p \in 1..4 :
                        /\ opts[p] = own
                        /\ \A k \in (1..4) \ {p} :
                             /\ opts[k] \in Range(LikertDefaults)
                             /\ opts[k].v["id"] # own.v["id"]

\* C7, amended: a selected candidate tagged I with exactly one valid option comes
\* back with the fixed default set a, b, c, d, in that order, as its 4 options.
C7_DefaultsReplace ==
    pc = "returned" =>
        \A i \in 1..Len(questions), j \in 1..Len(enforced) :
            LoneOptionCase(i, j) => Get(enforced[j], "options") = PList(LikertDefaults)

C7_Witness ==
    /\ pc = "returned"
    /\ \E i \in 1..Len(questions), j \in 1..Len(enforced) :
         /\ LoneOptionCase(i, j)
         /\ ValidOptions(Get(questions[i], "options"))[1] = Opt("x", "Only choice")
         /\ Get(enforced[j], "options") = PList(LikertDefaults)

\* C8: every returned question has a non-empty prompt.
C8_PromptNonEmpty ==
    pc = "done" =>
        \A k \in 1..Len(result) :
            IsStr(Get(result[k], "prompt")) /\ Get(result[k], "prompt").v # ""

\* a well-shaped normalized record
GoodRecord(q) ==
    /\ IsDict(q) /\ {"id", "prompt", "options"} \subseteq DOMAIN q.v
    /\ DOMAIN q.v \subseteq {"id", "prompt", "options", "scenario", "tags"}
    /\ IsStr(q.v["id"]) /\ q.v["id"].v # ""
    /\ IsStr(q.v["prompt"])
    /\ IsList(q.v["options"])
    /\ \A i \in 1..Len(q.v["options"].v) : GoodOption(q.v["options"].v[i])

\* C9: for any argument the normalizer returns well-shaped records with pairwise
\* distinct ids.
C9_NormalizerResilient ==
    pc = "normalized" =>
        /\ \A i \in 1..Len(normalized) : GoodRecord(normalized[i])
        /\ \A i, j \in 1..Len(normalized) :
             i # j => normalized[i].v["id"] # normalized[j].v["id"]

C9_Witness ==
    /\ pc = "normalized" /\ IsList(candidates) /\ Len(candidates.v) = 3
    /\ \E i \in 1..3 : ~IsDict(candidates.v[i])
    /\ \E i, j \in 1..3 :
         /\ i < j /\ IsDict(candidates.v[i]) /\ IsDict(candidates.v[j])
         /\ Get(candidates.v[i], "id") = Get(candidates.v[j], "id")
         /\ "options" \notin DOMAIN candidates.v[j].v
    /\ Len(normalized) = 2
    /\ normalized[1].v["id"] # normalized[2].v["id"]

\* C10: the sanitizer applied to its own return value returns it unchanged.
C10_SanitizerIdempotent ==
    pc = "sanitized_twice" => again = valid

C10_Witness ==
    /\ pc = "sanitized_twice" /\ again = valid
    /\ IsList(options) /\ Len(ValidOptions(options)) = 3
    /\ \E i \in 1..Len(options.v) :
         IsDict(options.v[i]) /\ Get(options.v[i], "id") = PStr(" a ")
    /\ valid # LikertDefaults

\* the ids of a list of questions, in order
IdsOf(qs) == [k \in 1..Len(qs) |-> Get(qs[k], "id")]

\* three candidates r-a, r-b, r-c, all of primary category R, and the table {R: 2}
ScenarioB ==
    /\ IdsOf(questions) = <<PStr("r-a"), PStr("r-b"), PStr("r-c")>>
    /\ \A i \in 1..Len(questions) : PrimaryOf(questions[i]) = "R"
    /\ desired = << <<"R", 2>> >>

\* C11 as stated: r-a then r-b are returned, and r-c is in the selection when the
\* trim-surplus step starts, which removes it.
C11_AsStated ==
    ScenarioB =>
        /\ pc = "returned" => IdsOf(enforced) = <<PStr("r-a"), PStr("r-b")>>
        /\ pc = "trim" => HasId(selected, "r-c")

\* C11, amended: r-a then r-b are returned; r-c is never selected (the take from the
\* R bucket stops at the quota) and the trim-surplus step removes nothing.
C11_NeverSelected ==
    ScenarioB =>
        /\ pc = "returned" => IdsOf(enforced) = <<PStr("r-a"), PStr("r-b")>>
        /\ ~HasId(selected, "r-c")
        /\ pc = "trim" => IdsOf(selected) = <<PStr("r-a"), PStr("r-b")>>
        /\ pc = "sanitize_selected" => IdsOf(selected) = <<PStr("r-a"), PStr("r-b")>>

C11_Witness ==
    /\ ScenarioB /\ pc = "returned"
    /\ IdsOf(enforced) = <<PStr("r-a"), PStr("r-b")>>
    /\ ~HasId(selected, "r-c")

\* the first quota[c] records of each category's pool, in the default table's order
ScenarioAExpected ==
    LET P == FallbackByRiasec(student_profile)
    IN <<P["R"][1], P["R"][2], P["I"][1], P["I"][2], P["A"][1], P["A"][2],
         P["S"][1], P["S"][2], P["E"][1], P["C"][1]>>

\* C12: with no candidates and the default quota table, the allocator returns the 10
\* fallback records R1,R2,I1,I2,A1,A2,S1,S2,E1,C1, taken from the head of each pool
\* in pool order, each with exactly 4 options.
C12_ScenarioA ==
    (pc = "returned" /\ questions = <<>> /\ desired = RIASEC_COVERAGE_REQUIRED) =>
        /\ Len(enforced) = 10
        /\ IdsOf(enforced) = <<PStr("R1"), PStr("R2"), PStr("I1"), PStr("I2"), PStr("A1"),
                               PStr("A2"), PStr("S1"), PStr("S2"), PStr("E1"), PStr("C1")>>
        /\ enforced = ScenarioAExpected
        /\ \A k \in 1..Len(enforced) : Len(Get(enforced[k], "options").v) = 4

C12_Witness ==
    /\ pc = "returned" /\ questions = <<>> /\ desired = RIASEC_COVERAGE_REQUIRED
    /\ Len(enforced) = 10
    /\ Get(enforced[9], "id") = PStr("E1") /\ Get(enforced[10], "id") = PStr("C1")
    /\ Len(Get(enforced[9], "options").v) = 4

\* the same records, ids included, in any order
IsPermutation(a, b) ==
    /\ Len(a) = Len(b)
    /\ \A x \in {a[i] : i \in 1..Len(a)} \cup {b[i] : i \in 1..Len(b)} :
          Cardinality({i \in 1..Len(a) : a[i] = x}) = Cardinality({i \in 1..Len(b) : b[i] = x})

\* C13: the shuffle runs exactly once per call, on the list the allocator returned at
\* its final size and before the ids are resequenced; after the shuffle nothing is cut
\* or changed but the ids, and the fallback path starts before any shuffle.
C13_StageOrder ==
    /\ shuffles \in {0, 1}
    /\ shuffles = 1 <=> pc \in {"resequence", "done"}
    /\ pc = "shuffle" => Len(enforced) = 10 /\ shuffled = <<>>
    /\ pc = "except" => shuffles = 0
    /\ pc \in {"resequence", "done"} => IsPermutation(shuffled, enforced)
    /\ pc = "done" =>
         /\ Len(result) = Len(shuffled)
         /\ \A k \in 1..Len(result) : WithoutId(result[k]) = WithoutId(shuffled[k])

C13_Witness ==
    /\ pc = "done" /\ path = "fallback" /\ shuffles = 1
    /\ shuffled # enforced /\ IsPermutation(shuffled, enforced)
    /\ Len(result) = 10

\* number of records of the whole fallback bank
BankSize ==
    LET P == FallbackByRiasec(student_profile)
    IN Len(P["R"]) + Len(P["I"]) + Len(P["A"]) + Len(P["S"]) + Len(P["E"]) + Len(P["C"])

\* candidates and bank together hold fewer records than the table asks for
InsufficientInventory == Len(questions) + BankSize < QuotaTotal(desired)

\* C14: with insufficient inventory the top-up stops when the pools are exhausted:
\* no fallback record is used twice and the returned list is shorter than the total.
C14_StopsWhenExhausted ==
    (pc = "returned" /\ InsufficientInventory) =>
        /\ Len(enforced) < QuotaTotal(desired)
        /\ \A i, j \in 1..Len(enforced) :
             i # j => WithoutId(enforced[i]) # WithoutId(enforced[j])

\* the normalized candidates of a call, read off the response alone
ExpectedCandidates ==
    IF response.t # "content" \/ ~IsStr(response.v) THEN <<>>
    ELSE LET m == ReSearch(response.v.v)
         IN IF m = NoMatch THEN <<>>
            ELSE IF ~JsonLoads(m).ok THEN <<>>
            ELSE NormalizeStep1Questions(GetOr(JsonLoads(m).val, "questions", PList(<<>>)))

\* the list before the shuffle, read off the response and the student context alone
ExpectedBeforeShuffle ==
    EnforceRiasecDistribution(ExpectedCandidates, RIASEC_COVERAGE_REQUIRED, student_profile)

C16_PrimaryDerivable ==
    pc = "done" =>
        \A k \in 1..Len(result) :
            /\ ExtractRiasecPrimary(Get(result[k], "tags")) # NoPrimary
            /\ ExtractRiasecPrimary(Get(result[k], "tags")) \in {"R", "I", "A", "S", "E", "C"}

C16_Witness ==
    /\ pc = "done" /\ path = "normal" /\ IsList(candidates)
    /\ \E i \in 1..Len(candidates.v) :
         IsDict(candidates.v[i]) /\ Get(candidates.v[i], "tags") = PNone
    /\ \E k \in 1..Len(result) :
         /\ Get(result[k], "tags") = PList(<<PStr("x"), PStr("Social")>>)
         /\ PrimaryOf(result[k]) = "S"
    /\ \A k \in 1..Len(result) : PrimaryOf(result[k]) \in {"R", "I", "A", "S", "E", "C"}

\* the record-shaped elements of a list, in order
RecordsOf(elems) ==
    LET f[i \in 0..Len(elems)] ==
            IF i = 0 THEN <<>>
            ELSE IF IsDict(elems[i]) THEN Append(f[i - 1], elems[i]) ELSE f[i - 1]
    IN f[Len(elems)]

\* the normalized record r was made from the input element e: same trimmed prompt,
\* same scenario and tags when the element has them
MadeFrom(r, e) ==
    /\ Get(r, "prompt") = PStr(Strip(Str(Or(Or(Get(e, "prompt"), Get(e, "question")), PStr("")))))
    /\ IF Truthy(Get(e, "scenario")) THEN Get(r, "scenario") = Get(e, "scenario")
       ELSE "scenario" \notin DOMAIN r.v
    /\ IF Truthy(Get(e, "tags")) THEN Get(r, "tags") = Get(e, "tags")
       ELSE "tags" \notin DOMAIN r.v

\* C17: a non-list argument gives the empty list; a list gives one record per
\* record-shaped element, in the elements' order, and nothing for the other elements;
\* records with an empty prompt or no options are kept.
C17_OrderAndFiltering ==
    pc = "normalized" =>
        IF ~IsList(candidates) THEN normalized = <<>>
        ELSE LET recs == RecordsOf(candidates.v)
             IN /\ Len(normalized) = Len(recs)
                /\ \A k \in 1..Len(recs) : MadeFrom(normalized[k], recs[k])

C17_Witness ==
    /\ pc = "normalized" /\ IsList(candidates) /\ Len(candidates.v) = 3
    /\ ~IsDict(candidates.v[2])
    /\ IsDict(candidates.v[1]) /\ IsDict(candidates.v[3])
    /\ Len(normalized) = 2
    /\ Get(normalized[1], "prompt") = PStr("") /\ Get(normalized[1], "options") = PList(<<>>)
    /\ Get(normalized[2], "prompt") # PStr("")

\* the provided id of an element, trimmed; "" when there is none
ProvidedId(e) == Strip(Str(Or(Get(e, "id"), PStr(""))))

\* ids of the records before position k
EarlierIds(k) == {normalized[m].v["id"].v : m \in 1..(k - 1)}

\* the numbers n a synthesized id q<n> can carry in a pass over MaxCands elements
SynthNumbers == 1..(2 * MaxCands + 2)

KeepsProvided(recs, k) == ProvidedId(recs[k]) # "" /\ ProvidedId(recs[k]) \notin EarlierIds(k)

SynthNumber(k) == CHOOSE n \in SynthNumbers : normalized[k].v["id"].v = "q" \o ToString(n)

\* C18: a record keeps its trimmed provided id exactly when that id is non-empty and
\* no earlier record of the pass has it; otherwise its id is q<n>, not among the
\* earlier ids, and the numbers of the synthesized ids grow along the pass.
C18_IdRule ==
    (pc = "normalized" /\ IsList(candidates)) =>
        LET recs == RecordsOf(candidates.v)
            synth == {k \in 1..Len(recs) : ~KeepsProvided(recs, k)}
        IN /\ Len(normalized) = Len(recs)
           /\ \A k \in (1..Len(recs)) \ synth :
                normalized[k].v["id"].v = ProvidedId(recs[k])
           /\ \A k \in synth :
                /\ \E n \in SynthNumbers : normalized[k].v["id"].v = "q" \o ToString(n)
                /\ normalized[k].v["id"].v \notin EarlierIds(k)
                /\ normalized[k].v["id"].v # ProvidedId(recs[k])
           /\ \A k1, k2 \in synth : k1 < k2 => SynthNumber(k1) < SynthNumber(k2)

C18_Witness ==
    /\ pc = "normalized" /\ IsList(candidates) /\ Len(candidates.v) = 3
    /\ \A i \in 1..3 : IsDict(candidates.v[i])
    /\ ProvidedId(candidates.v[1]) = "q1"
    /\ ProvidedId(candidates.v[2]) = ""
    /\ ProvidedId(candidates.v[3]) = "r-a"
    /\ Len(normalized) = 3
    /\ normalized[1].v["id"].v = "q1"
    /\ normalized[2].v["id"].v = "q2"
    /\ normalized[3].v["id"].v = "r-a"

\* a tag that names a category: a string that, surrounding whitespace aside, is a
\* single-letter code or a full category name
NamesCategory(tag) ==
    /\ IsStr(tag)
    /\ Strip(tag.v) \in {"R", "I", "A", "S", "E", "C", "Realistic", "Investigative",
                         "Artistic", "Social", "Enterprising", "Conventional"}

\* the letter of a tag that names a category
LetterOf(tag) ==
    LET t == Strip(tag.v)
    IN CASE t = "Realistic" -> "R"
         [] t = "Investigative" -> "I"
         [] t = "Artistic" -> "A"
         [] t = "Social" -> "S"
         [] t = "Enterprising" -> "E"
         [] t = "Conventional" -> "C"
         [] OTHER -> t

\* C19: the classifier returns the letter of the first tag, in list order, that
\* names a category (a single-letter code or a full name, surrounding whitespace
\* aside), whatever non-matching or non-string tags precede it; it returns none when
\* tags is missing, empty, not a list, or holds no such tag.
C19_FirstMatch ==
    pc = "classified" =>
        IF ~IsList(tags_arg) THEN primary = NoPrimary
        ELSE LET hits == {i \in 1..Len(tags_arg.v) : NamesCategory(tags_arg.v[i])}
             IN IF hits = {} THEN primary = NoPrimary
                ELSE \E i \in hits :
                        /\ \A j \in hits : i <= j
                        /\ primary = LetterOf(tags_arg.v[i])

C19_Witness ==
    /\ pc = "classified" /\ IsList(tags_arg)
    /\ tags_arg.v = <<PInt(3), PStr("Investigative"), PStr("R")>>
    /\ primary = "I"

\* candidate i has no place in the table: no primary category, or one the table
\* does not name
Uncategorized(i) ==
    ExtractRiasecPrimary(Get(questions[i], "tags"))
        \notin {desired[k][1] : k \in 1..Len(desired)}

\* C20: a candidate whose primary category is none, or is not a key of the quota
\* table, is never selected and never appears in the allocator's output.
C20_UncategorizedExcluded ==
    pc \in {"deficit", "topup", "trim", "sanitize_selected", "returned"} =>
        \A i \in 1..Len(questions) :
            Uncategorized(i) =>
                /\ \A j \in 1..Len(selected) :
                     /\ selected[j] # questions[i]
                     /\ ~(/\ Get(selected[j], "id") = Get(questions[i], "id")
                          /\ Get(selected[j], "tags") = Get(questions[i], "tags"))
                /\ \A j \in 1..Len(enforced) : ~SelectedAs(i, j)

C20_Witness ==
    /\ pc = "returned" /\ desired = << <<"R", 2>> >>
    /\ Len(questions) = 3
    /\ \E i \in 1..3 : ExtractRiasecPrimary(Get(questions[i], "tags")) = NoPrimary
    /\ \E i \in 1..3 : ExtractRiasecPrimary(Get(questions[i], "tags")) = "I"
    /\ \E i \in 1..3 : SelectedAs(i, 1)
    /\ IdsOf(enforced) = <<PStr("r-a"), PStr("R1")>>
    /\ Get(enforced[2], "tags") = PList(<<PStr("R")>>)

\* the elements of a sequence at the positions of a set, in order
Pick(s, keep) ==
    LET f[i \in 0..Len(s)] ==
            IF i = 0 THEN <<>>
            ELSE IF i \in keep THEN Append(f[i - 1], s[i]) ELSE f[i - 1]
    IN f[Len(s)]

\* the returned question j is one of the candidates
IsCandidate(j) == \E i \in 1..Len(questions) : SelectedAs(i, j)

CategoryOf(q) == ExtractRiasecPrimary(Get(q, "tags"))

\* ids of the candidates of a category, in the order of the argument
BucketIds(code) ==
    IdsOf(Pick(questions, {i \in 1..Len(questions) : CategoryOf(questions[i]) = code}))

\* ids of the returned candidates of a category, in the order of the return value
ReturnedCandidateIds(code) ==
    IdsOf(Pick(enforced, {j \in 1..Len(enforced) :
                             CategoryOf(enforced[j]) = code /\ IsCandidate(j)}))

\* number of returned fallback records of a category
ReturnedFallbacks(code) ==
    Cardinality({j \in 1..Len(enforced) : CategoryOf(enforced[j]) = code /\ ~IsCandidate(j)})

\* number of fallback records of a category in the selection after deficit fill
FilledFallbacks(code) ==
    Cardinality({j \in 1..Len(selected) :
                    /\ CategoryOf(selected[j]) = code
                    /\ \A i \in 1..Len(questions) : selected[j] # questions[i]})

Min2(a, b) == IF a < b THEN a ELSE b

BankRecords ==
    LET P == FallbackByRiasec(student_profile)
    IN UNION {Range(P[code]) : code \in DOMAIN P}

\* ids of the selection before position j
IdsBefore(j) == {IdOf(selected[i]) : i \in 1..(j - 1)}

\* id is natural when natural is free, else natural_k for the smallest k >= 1 free
SmallestFree(natural, id, used) ==
    \/ natural \notin used /\ id = natural
    \/ /\ natural \in used
       /\ \E k \in 1..(Cardinality(used) + 1) :
            /\ id = natural \o "_" \o ToString(k)
            /\ id \notin used
            /\ \A m \in 1..(k - 1) : (natural \o "_" \o ToString(m)) \in used

\* C22: a fallback record added by deficit fill or top-up carries its natural id when
\* no earlier selected question has it, else the natural id followed by _k for the
\* smallest k >= 1 that is free; the ids of the returned list are pairwise distinct.
C22_IdsDeduplicated ==
    /\ pc = "trim" =>
         \A j \in 1..Len(selected) :
             selected[j] \notin Range(questions) =>
                 \E r \in BankRecords :
                     /\ WithoutId(r) = WithoutId(selected[j])
                     /\ SmallestFree(IdOf(r), IdOf(selected[j]), IdsBefore(j))
    /\ pc = "returned" =>
         \A i, j \in 1..Len(enforced) :
             i # j => Get(enforced[i], "id") # Get(enforced[j], "id")

\* model candidates already use R1 and R1_1, the fallback record R1 becomes R1_2
C22_Witness ==
    /\ pc = "returned"
    /\ HasId(questions, "R1") /\ HasId(questions, "R1_1")
    /\ \E i, j, k \in 1..Len(enforced) :
         /\ Get(enforced[i], "id") = PStr("R1") /\ IsCandidate(i)
         /\ Get(enforced[j], "id") = PStr("R1_1") /\ IsCandidate(j)
         /\ Get(enforced[k], "id") = PStr("R1_2") /\ ~IsCandidate(k)

\* every bucket meets its quota and some bucket holds more candidates than its quota
BucketsMeetQuotas ==
    /\ \A k \in 1..Len(desired) : Tally(questions, desired[k][1]) >= desired[k][2]
    /\ \E k \in 1..Len(desired) : Tally(questions, desired[k][1]) > desired[k][2]

\* C23 as stated: when the buckets meet every quota and extra categorized candidates
\* exist, the selection holds more than `total` items when the trim-surplus step
\* starts.
C23_AsStated ==
    (pc = "trim" /\ BucketsMeetQuotas) => Len(selected) > QuotaTotal(desired)

\* C23, amended: the selection never holds more than `total` items when the
\* trim-surplus step starts, whatever the candidates and the non-negative quotas, so
\* the step removes nothing: the take from each bucket stops at the quota and deficit
\* fill and top-up stop at the deficit and at the total.
C23_NoSurplus ==
    /\ pc = "trim" => Len(selected) <= QuotaTotal(desired)
    /\ pc = "sanitize_selected" => Len(selected) <= QuotaTotal(desired)
    /\ pc = "trim" => TrimSurplus(selected, desired) = selected

\* the buckets meet every quota, an extra categorized candidate exists, no surplus
C23_Witness ==
    /\ pc = "sanitize_selected" /\ BucketsMeetQuotas
    /\ Tally(questions, "R") = 3 /\ QuotaTotal(desired) = 2
    /\ Len(selected) = 2

\* positions of a selection the trim-surplus block must keep: every position but those
\* of a category of the table holding more than its quota, past the first quota[c]
KeptPositions(sel, table) ==
    {i \in 1..Len(sel) :
        \A k \in 1..Len(table) :
            LET same == {j \in 1..Len(sel) : CategoryOf(sel[j]) = table[k][1]}
            IN ~ /\ i \in same
                 /\ Cardinality(same) > table[k][2]
                 /\ Cardinality({j \in same : j < i}) >= table[k][2]}

\* C24: applied to a selection longer than `total`, the trim step removes exactly the
\* items past the first quota[c] of each category over its quota, keeps every other
\* item, those without a recognized category included, and keeps their order.
C24_TrimKeepsFirst ==
    [][(pc = "trim_only" /\ Len(selected) > QuotaTotal(desired))
          => selected' = Pick(selected, KeptPositions(selected, desired))]_vars

\* a selection of four under the table {I: 3, R: 0}: both R questions went, the I
\* question and the uncategorized one stayed
C24_Witness ==
    /\ pc = "trimmed" /\ desired = << <<"I", 3>>, <<"R", 0>> >>
    /\ Cardinality(used_ids) = 4 /\ Len(selected) = 2
    /\ PrimaryOf(selected[1]) = NoPrimary /\ PrimaryOf(selected[2]) = "I"
    /\ {"r-b", "r-c"} \subseteq used_ids

\* C25: under the default table the selection holds exactly `total` items once deficit
\* fill is done, whatever the normalized candidates, and top-up adds nothing: when the
\* trim step starts each category still holds max(0, quota - bucket size) fallback
\* records.
C25_TopUpIdle ==
    desired = RIASEC_COVERAGE_REQUIRED =>
        /\ pc = "topup" =>
             /\ Len(selected) = QuotaTotal(desired)
             /\ TopUp(fallback_pools, QuotaTotal(desired),
                      [selected |-> selected, used_ids |-> used_ids]).selected = selected
        /\ pc = "trim" =>
             /\ Len(selected) = QuotaTotal(desired)
             /\ \A k \in 1..Len(desired) :
                  FilledFallbacks(desired[k][1])
                      = Max0(desired[k][2] - Tally(questions, desired[k][1]))

\* three candidates of three categories, seven fallback records, top-up done
C25_Witness ==
    /\ pc = "trim" /\ desired = RIASEC_COVERAGE_REQUIRED
    /\ Tally(questions, "R") = 1 /\ Tally(questions, "I") = 1 /\ Tally(questions, "S") = 1
    /\ Len(selected) = 10
    /\ Cardinality({j \in 1..Len(selected) : selected[j] \in Range(questions)}) = 3

\* the fixed default set, in the order a, b, c, d
DefaultSet ==
    << Opt("a", "Sounds exactly like me"), Opt("b", "Somewhat like me"),
       Opt("c", "A little like me"), Opt("d", "Not like me") >>

\* the defaults whose id is not the id of one of the kept options, in order
FreeDefaults(kept) ==
    Pick(DefaultSet, {i \in 1..4 : \A k \in 1..Len(kept) : kept[k].v["id"] # DefaultSet[i].v["id"]})

\* C26: with fewer than 2 valid options the sanitizer returns the default set a, b, c, d
\* alone; with v >= 2 it returns the first min(v, 4) valid options in their order,
\* then the defaults in the order a, b, c, d, skipping each default whose id is
\* already present, until 4 options are there.
C26_KeepAndPad ==
    pc = "sanitized" =>
        LET v == ValidOptions(options)
            m == Min2(Len(v), 4)
        IN IF Len(v) < 2 THEN valid = DefaultSet
           ELSE /\ Len(valid) = 4
                /\ SubSeq(valid, 1, m) = SubSeq(v, 1, m)
                /\ SubSeq(valid, m + 1, 4) = SubSeq(FreeDefaults(SubSeq(v, 1, m)), 1, 4 - m)

\* two valid options with ids a and d: the padding skips a, adds b and c, never d
C26_Witness ==
    /\ pc = "sanitized"
    /\ ValidOptions(options) = <<Opt("d", "Dee"), Opt("a", "Also a")>>
    /\ valid = <<Opt("d", "Dee"), Opt("a", "Also a"),
                 Opt("b", "Somewhat like me"), Opt("c", "A little like me")>>

\* the pool record a returned fallback record was copied from: same prompt and tags
CopiedFrom(q, r) ==
    /\ Get(q, "prompt") = Get(r, "prompt")
    /\ Get(q, "tags") = Get(r, "tags")

\* C27: once built, the fallback pools stay as _fallback_by_riasec built them through
\* deficit fill, top-up, trim and the sanitize loop; a returned fallback record renamed
\* to X_k leaves the id X of the pool record it was copied from.
C27_BankReadOnly ==
    /\ pc \in {"topup", "trim", "sanitize_selected", "returned", "shuffle", "resequence", "done"}
         => fallback_pools = FallbackByRiasec(student_profile)
    /\ pc = "returned" =>
         \A j \in 1..Len(enforced) :
             ~IsCandidate(j) =>
                 \E r \in Range(fallback_pools[CategoryOf(enforced[j])]) :
                     /\ CopiedFrom(enforced[j], r)
                     /\ \/ Get(enforced[j], "id") = Get(r, "id")
                        \/ \E k \in 1..Len(enforced) :
                             Get(enforced[j], "id") = PStr(IdOf(r) \o "_" \o ToString(k))

\* the record R1 was returned as R1_2 and the pool still holds it as R1
C27_Witness ==
    /\ pc = "returned"
    /\ \E j \in 1..Len(enforced) :
         /\ Get(enforced[j], "id") = PStr("R1_2")
         /\ CopiedFrom(enforced[j], fallback_pools["R"][1])
    /\ Get(fallback_pools["R"][1], "id") = PStr("R1")

\* C28: run statement by statement, deficit fill and top-up reach line 324 from every
\* candidate list and quota table, tables asking more than the 12 bank records
\* included: the top-up loop and every id de-duplication loop end; the selection they
\* leave is the one the loops compute as a whole.
C28_Terminates ==
    /\ <>(pc = "filled")
    /\ [](pc = "filled" =>
            selected = TopUp(fallback_pools, TotalNeeded(desired),
                             DeficitFill(desired, fallback_pools,
                                         PrimaryFill(questions, desired))).selected)

\* 13 questions asked of 12 bank records, the de-duplication loop ran to suffix 3
C28_Witness ==
    /\ pc = "filled" /\ QuotaTotal(desired) = 13 /\ Len(selected) = 13
    /\ HasId(selected, "R1_3")
    /\ cursor.k > 0

\* C29: whatever the candidates and the table, the returned list holds at most
\* quota[c] questions of each category c of the table.
C29_NoCategoryOverQuota ==
    pc = "returned" =>
        \A k \in 1..Len(desired) : Tally(enforced, desired[k][1]) <= desired[k][2]

\* C30: the final list holds the questions the allocator returned, each once, changed
\* in the id alone (q1, q2, ... by position); the shuffle reorders and the [:10] slice
\* cuts nothing; the records handed to the resequencing keep their ids.
C30_ContentPreserved ==
    /\ pc \in {"resequence", "done"} =>
         /\ IsPermutation(shuffled, enforced)
         /\ Prefix(shuffled, 10) = shuffled
    /\ pc = "done" =>
         /\ SameUpToOrder(result, enforced)
         /\ \A k \in 1..Len(result) :
              /\ result[k] = With(shuffled[k], "id", PStr("q" \o ToString(k)))
              /\ \E j \in 1..Len(enforced) :
                   /\ shuffled[k] = enforced[j]
                   /\ DOMAIN result[k].v = DOMAIN enforced[j].v

\* a candidate of the model came back second instead of first, renamed q2, and the
\* shuffled list still holds it under its own id
C30_Witness ==
    /\ pc = "done" /\ path = "normal"
    /\ Get(enforced[1], "id") = PStr("r-a") /\ Get(shuffled[2], "id") = PStr("r-a")
    /\ Get(result[2], "id") = PStr("q2")
    /\ WithoutId(result[2]) = WithoutId(enforced[1])

====
